---- MODULE Spec2Model ----
(***************************************************************************)
(* Model of raspap_display.py: the touch panel's main loop, its screen     *)
(* state machine, the VPN controller, the AP status caches and the         *)
(* snapshot change detector.                                               *)
(*                                                                         *)
(* Time.  The loop's timestamps (time.time()) are kept in tenths of a      *)
(* second and relative to the current instant: `now` is 0, a timestamp in  *)
(* the past is negative, one in the future positive.  When d tenths pass,  *)
(* every stored timestamp moves back by d.  The code only compares         *)
(* differences of timestamps, and a timestamp older than the constant it   *)
(* is compared with behaves like any older one, so stored timestamps are   *)
(* kept no further back than that constant.                                *)
(*                                                                         *)
(* Environment.  Every function that runs a command or queries the status  *)
(* service is a set-valued operator: it returns the set of states the call *)
(* can leave behind, one per possible answer of the command.               *)
(***************************************************************************)
EXTENDS Integers, Sequences, FiniteSets, TLC

VARIABLES
    env,                                 \* the answers the network and hotspot probes can give in this run
    pc,                                  \* position of main(): "startup", "input", "periodic", "render"
    show_system_menu, show_info_screen, show_vpn_menu, info_page,
    vpn_list_scroll_offset,
    last_button_press,
    current_wlan0_connection_status, current_ap_hotspot_status,
    current_vpn_status, current_vpn_config_basename, current_vpn_display_name,
    available_vpns,
    touch_instance,                      \* TRUE when the touch driver initialised
    g_ignore_touch_input_temporarily, g_ignore_touch_until_timestamp,
    last_displayed_state,
    loop_counter,
    polled,                              \* was get_touch_coordinates called in this iteration
    sample,                              \* (tx, ty) of this iteration, None without a sample
    action_result,                       \* check_button_press's result in this iteration
    redraw,                              \* main()'s local flag at the end of the last step
    trace,                               \* frames shown and commands issued by the last step
    vpn_call,                            \* this iteration's outermost VPN call and its health checks
    gt_dev_data,                         \* what lines 1082-1101 left in current_gt_dev_data
    refreshed,                           \* were lines 1104-1107 run in this iteration
    diff_old, diff_new, diff_result,     \* have_states_changed's arguments and result
    diff_pc,                             \* "call" before have_states_changed ran, "returned" after
    ap_ssid_cache, ap_clients_cache,     \* _ap_ssid_cache, _ap_clients_cache
    cache_now,                           \* time.time() of the cache reads, in seconds
    cache_read,                          \* the last cache read: what it returned and whether it fetched
    system_stats_cache,                  \* the dict of the same name
    stats_now,                           \* time.time() of update_system_stats, in seconds
    stats_ticks,                         \* how often the stats clock has advanced
    stats_call,                          \* the last update_system_stats call and what it fetched
    touch_reading,                       \* (X[0], Y[0]) of a GT1151 scan
    touch_coords,                        \* what get_touch_coordinates returned for it
    touch_pc,                            \* "scan" before get_touch_coordinates mapped it, "mapped" after
    life_pc,                             \* position of main() between driver creation and exit
    panel_calls,                         \* the hooks of the panel and the driver called so far, in order
    life                                 \* epd_instance set, init succeeded, loop entered, what was raised

loopVars == <<env, pc, show_system_menu, show_info_screen, show_vpn_menu, info_page,
              vpn_list_scroll_offset, last_button_press,
              current_wlan0_connection_status, current_ap_hotspot_status,
              current_vpn_status, current_vpn_config_basename, current_vpn_display_name,
              available_vpns, touch_instance, g_ignore_touch_input_temporarily,
              g_ignore_touch_until_timestamp, last_displayed_state, loop_counter,
              polled, sample, action_result, redraw, trace, vpn_call, gt_dev_data,
              refreshed>>

diffVars == <<diff_old, diff_new, diff_result, diff_pc>>

cacheVars == <<ap_ssid_cache, ap_clients_cache, cache_now, cache_read>>

statsVars == <<system_stats_cache, stats_now, stats_ticks, stats_call>>

touchVars == <<touch_reading, touch_coords, touch_pc>>

lifeVars == <<life_pc, panel_calls, life>>

vars == <<loopVars, diffVars, cacheVars, statsVars, touchVars, lifeVars>>

----------------------------------------------------------------------------
(* Bounds of the model *)

\* the longest vpn_connections.json list that is explored
MaxProfiles == 5

\* the longest time (tenths of a second) a loop iteration takes beyond its fixed sleeps
MaxExtraDelay == 1

----------------------------------------------------------------------------
(* Values *)

\* Python's None; profile keys and names are tuples too, so that they compare with it
None == <<>>

Max(a, b) == IF a >= b THEN a ELSE b

Min(a, b) == IF a <= b THEN a ELSE b

\* the instant a step reads time.time(): timestamps are relative to it
now == 0

UI_EPD_WIDTH == 250

UI_EPD_HEIGHT == 122

BTN_WIDTH == 80

BTN_MARGIN == 5

BTN_X == UI_EPD_WIDTH - BTN_WIDTH - BTN_MARGIN

NUM_MAIN_BUTTONS == 4

gap_h == 4

BTN_HEIGHT == (UI_EPD_HEIGHT - (2 * BTN_MARGIN) - ((NUM_MAIN_BUTTONS - 1) * gap_h)) \div NUM_MAIN_BUTTONS

BTN_SLOT_1_Y == BTN_MARGIN

\* a second slot that starts on the last pixel row of the first
BTN_SLOT_2_Y_NoGap == BTN_SLOT_1_Y + BTN_HEIGHT

BTN_SLOT_2_Y == BTN_SLOT_1_Y + BTN_HEIGHT + gap_h

BTN_SLOT_3_Y == BTN_SLOT_2_Y + BTN_HEIGHT + gap_h

BTN_SLOT_4_Y == BTN_SLOT_3_Y + BTN_HEIGHT + gap_h

Area(n, x, y, w, h) == [name |-> n, x |-> x, y |-> y, w |-> w, h |-> h]

\* the dicts keep their declaration order: a sequence of areas
BUTTON_AREAS ==
    << Area("net_toggle", BTN_X, BTN_SLOT_1_Y, BTN_WIDTH, BTN_HEIGHT),
       Area("vpn_menu", BTN_X, BTN_SLOT_2_Y, BTN_WIDTH, BTN_HEIGHT),
       Area("system", BTN_X, BTN_SLOT_3_Y, BTN_WIDTH, BTN_HEIGHT),
       Area("info", BTN_X, BTN_SLOT_4_Y, BTN_WIDTH, BTN_HEIGHT) >>

SYSTEM_BUTTON_AREAS ==
    << Area("reboot", BTN_X, BTN_SLOT_1_Y, BTN_WIDTH, BTN_HEIGHT),
       Area("shutdown", BTN_X, BTN_SLOT_2_Y, BTN_WIDTH, BTN_HEIGHT),
       Area("back", BTN_X, BTN_SLOT_4_Y, BTN_WIDTH, BTN_HEIGHT) >>

INFO_BUTTON_AREAS ==
    << Area("prev", BTN_X, BTN_SLOT_1_Y, BTN_WIDTH, BTN_HEIGHT),
       Area("next", BTN_X, BTN_SLOT_2_Y, BTN_WIDTH, BTN_HEIGHT),
       Area("back", BTN_X, BTN_SLOT_4_Y, BTN_WIDTH, BTN_HEIGHT) >>

VPN_LIST_ITEM_HEIGHT == 20

VPN_LIST_ITEMS_PER_SCREEN == 4

VPN_LIST_X_START == BTN_MARGIN

VPN_LIST_Y_START == BTN_MARGIN + 20

VPN_LIST_WIDTH == UI_EPD_WIDTH - (2 * BTN_MARGIN) - BTN_WIDTH - BTN_MARGIN

VPN_LIST_NAV_BUTTON_AREAS ==
    << Area("up", BTN_X, BTN_SLOT_1_Y, BTN_WIDTH, BTN_HEIGHT),
       Area("down", BTN_X, BTN_SLOT_2_Y, BTN_WIDTH, BTN_HEIGHT),
       Area("disconnect", BTN_X, BTN_SLOT_3_Y, BTN_WIDTH, BTN_HEIGHT),
       Area("back", BTN_X, BTN_SLOT_4_Y, BTN_WIDTH, BTN_HEIGHT) >>

MAX_INFO_PAGES == 2

\* 0.5 s
touch_cooldown == 5

\* the 0.7 s of g_ignore_touch_until_timestamp = time.time() + 0.7
IGNORE_TOUCH_SPAN == 7

\* loop_counter % 10
PERIODIC_EVERY == 10

ACTION_MENU_CHANGE == 2

ACTION_NORMAL_PRESS == 1

ACTION_NONE == 0

\* no command was run
NoProc == [completed |-> FALSE, returncode |-> 0, stdout |-> ""]

\* how "systemctl is-active <unit>" can end under Popen and communicate: not at all
\* (timeout or exception), or with a return code and a trimmed stdout that is empty,
\* one of the three known words or another word
IsActiveProcs ==
    { NoProc } \cup
    { [completed |-> TRUE, returncode |-> rc, stdout |-> out] :
        rc \in {0, 3}, out \in {"active", "inactive", "failed", "", "activating"} }

\* what run_command returns for a command that ended as proc
run_command_output(proc) ==
    IF ~proc.completed THEN ""
    ELSE IF proc.returncode # 0 THEN ""
    ELSE proc.stdout

\* what run_command returns for "systemctl is-active <unit>"
IsActiveOutputs == { run_command_output(proc) : proc \in IsActiveProcs }

\* the entry of vpn_connections.json at position i, with the key load_vpn_connections adds
VpnDef(i) == [name |-> <<"name", i>>, config_basename_no_ext |-> <<"cfg", i>>]

\* an event of the trace: a frame pushed to the panel or a command handed to run_command
Ev(kind, op, arg) == [kind |-> kind, op |-> op, arg |-> arg]

\* during is the status while the start command runs, refresh the answer to the health
\* check of the update_vpn_status that ends the call
NoCall == [op |-> "none", target |-> None, before |-> None, before_status |-> "none",
           health |-> "none", stop_health |-> "none", during |-> "none",
           refresh |-> "none"]

----------------------------------------------------------------------------
(* The module's globals as one record, threaded through the functions.     *)
(* trace, slept, vpn_call, pressed_action_name and action_caused_menu_change *)
(* are what a step observes or keeps in locals.                            *)

Globals ==
    [ show_system_menu |-> show_system_menu,
      show_info_screen |-> show_info_screen,
      show_vpn_menu |-> show_vpn_menu,
      info_page |-> info_page,
      vpn_list_scroll_offset |-> vpn_list_scroll_offset,
      last_button_press |-> last_button_press,
      current_wlan0_connection_status |-> current_wlan0_connection_status,
      current_ap_hotspot_status |-> current_ap_hotspot_status,
      current_vpn_status |-> current_vpn_status,
      current_vpn_config_basename |-> current_vpn_config_basename,
      current_vpn_display_name |-> current_vpn_display_name,
      available_vpns |-> available_vpns,
      trace |-> <<>>,
      slept |-> 0,
      vpn_call |-> NoCall,
      pressed_action_name |-> "None",
      action_caused_menu_change |-> FALSE,
      action_result |-> ACTION_NONE ]

\* display_message / display_final_message / draw_main_ui_elements hand a frame to the panel
display_on_epd(g, frame) == [g EXCEPT !.trace = Append(@, Ev("frame", frame, None))]

display_message(g, msg_txt) == display_on_epd(g, msg_txt)

\* a state-changing command handed to run_command
run_command(g, op, arg) == [g EXCEPT !.trace = Append(@, Ev("cmd", op, arg))]

\* time.sleep(t), t in tenths of a second
sleep(g, t) == [g EXCEPT !.slept = @ + t]

display_final_message(g, message_text) == sleep(display_on_epd(g, message_text), 50)

get_vpn_service_name(config_basename_no_ext) == <<"openvpn-client@">> \o config_basename_no_ext

\* status_output is what run_command returned for "sudo systemctl is-active <service>"
get_specific_vpn_service_status(service_name_to_check, status_output) ==
    IF service_name_to_check = None THEN "VPN_ERROR"
    ELSE IF status_output = "active" THEN "VPN_ON"
    ELSE IF status_output = "inactive" \/ status_output = "failed" THEN "VPN_OFF"
    ELSE IF status_output = "" THEN "VPN_ERROR"
    ELSE "VPN_ERROR"

\* update_system_stats: the loop model keeps only the forced geolocation refetch
update_system_stats(g, force_geoip_update) ==
    IF force_geoip_update
    THEN [g EXCEPT !.trace = Append(@, Ev("fetch", "geoip_forced", None))]
    ELSE g

\* update_vpn_status(initial_check=False) once the health check returned actual_status
UpdateVpnFrom(g, actual_status) ==
    LET h == [g EXCEPT !.vpn_call.refresh = actual_status]
    IN  IF actual_status = "VPN_ON"
        THEN [h EXCEPT !.current_vpn_status = "VPN_ON"]
        ELSE IF actual_status = "VPN_OFF"
        THEN IF g.current_vpn_status = "VPN_ON" /\ g.current_vpn_display_name # None
             THEN [h EXCEPT !.current_vpn_status = "VPN_OFF",
                            !.current_vpn_config_basename = None,
                            !.current_vpn_display_name = None]
             ELSE [h EXCEPT !.current_vpn_status = "VPN_OFF"]
        ELSE [h EXCEPT !.current_vpn_status = "VPN_ERROR"]

\* update_vpn_status(): the set of states it can leave, one per answer of the health check
update_vpn_status(g) ==
    IF g.current_vpn_config_basename # None
    THEN { UpdateVpnFrom(g, get_specific_vpn_service_status(
                                get_vpn_service_name(g.current_vpn_config_basename), out))
           : out \in IsActiveOutputs }
    ELSE { [g EXCEPT !.current_vpn_status = "VPN_OFF", !.current_vpn_display_name = None] }

\* update_vpn_status(initial_check=True): the first profile whose service answers
\* "active" becomes the active one; every answer of every check is possible
update_vpn_status_initial(g) ==
    { [g EXCEPT !.current_vpn_status = "VPN_OFF",
                !.current_vpn_config_basename = None,
                !.current_vpn_display_name = None] }
    \cup
    { [g EXCEPT !.current_vpn_status = "VPN_ON",
                !.current_vpn_config_basename = g.available_vpns[i].config_basename_no_ext,
                !.current_vpn_display_name = g.available_vpns[i].name]
      : i \in 1..Len(g.available_vpns) }

\* a disconnect that forgets the profile only when the service is found stopped
DisconnectVpnChecked_TrustsCheck(g, called_during_connect, actual_status) ==
    IF actual_status = "VPN_OFF"
    THEN { [g EXCEPT !.current_vpn_config_basename = None,
                     !.current_vpn_display_name = None,
                     !.current_vpn_status = "VPN_OFF",
                     !.vpn_call.stop_health = actual_status] }
    ELSE { [g EXCEPT !.current_vpn_status = actual_status,
                     !.vpn_call.stop_health = actual_status] }

\* disconnect_vpn once the post-stop health check returned actual_status
DisconnectVpnChecked(g, called_during_connect, actual_status) ==
    LET g1 == [g EXCEPT !.current_vpn_config_basename = None,
                        !.current_vpn_display_name = None,
                        !.current_vpn_status = "VPN_OFF",
                        !.vpn_call.stop_health = actual_status]
    IN  IF ~called_during_connect
        THEN update_vpn_status(update_system_stats(g1, TRUE))
        ELSE {g1}

disconnect_vpn(g, silent, called_during_connect) ==
    IF g.current_vpn_config_basename = None
    THEN { [g EXCEPT !.current_vpn_status = "VPN_OFF",
                     !.vpn_call = IF called_during_connect THEN @
                                  ELSE [NoCall EXCEPT !.op = "disconnect_noop",
                                                      !.before_status = g.current_vpn_status]] }
    ELSE
      LET svc_name == get_vpn_service_name(g.current_vpn_config_basename)
          g0 == IF called_during_connect THEN g
                ELSE [g EXCEPT !.vpn_call = [NoCall EXCEPT
                                   !.op = "disconnect",
                                   !.before = g.current_vpn_config_basename,
                                   !.before_status = g.current_vpn_status]]
          g1 == [g0 EXCEPT !.current_vpn_status = "VPN_DISCONNECTING"]
          g2 == IF ~silent THEN display_message(g1, "VPN: Disconnecting") ELSE g1
          g3 == sleep(run_command(g2, "stop", svc_name), 30)
      IN  UNION { DisconnectVpnChecked(g3, called_during_connect,
                                       get_specific_vpn_service_status(svc_name, out))
                  : out \in IsActiveOutputs }

\* a connect that returns after a failed health check without settling the status
ConnectVpnChecked_ReturnsOnFailure(g, vpn_def_to_connect, actual_status) ==
    LET gc == [g EXCEPT !.vpn_call.health = actual_status]
    IN  IF actual_status = "VPN_ON"
        THEN update_vpn_status(
               [update_system_stats(
                  [gc EXCEPT !.current_vpn_config_basename = vpn_def_to_connect.config_basename_no_ext,
                             !.current_vpn_display_name = vpn_def_to_connect.name,
                             !.current_vpn_status = "VPN_ON"], TRUE)
                EXCEPT !.show_vpn_menu = FALSE])
        ELSE { sleep([display_message(gc, "VPN: Failed")
                      EXCEPT !.current_vpn_config_basename = None,
                             !.current_vpn_display_name = None], 20) }

\* connect_vpn once the post-connect health check returned actual_status
ConnectVpnChecked(g, vpn_def_to_connect, actual_status) ==
    LET gc == [g EXCEPT !.vpn_call.health = actual_status]
    IN  IF actual_status = "VPN_ON"
        THEN update_vpn_status(
               [update_system_stats(
                  [gc EXCEPT !.current_vpn_config_basename = vpn_def_to_connect.config_basename_no_ext,
                             !.current_vpn_display_name = vpn_def_to_connect.name,
                             !.current_vpn_status = "VPN_ON"], TRUE)
                EXCEPT !.show_vpn_menu = FALSE])
        ELSE update_vpn_status(
               sleep([display_message(gc, "VPN: Failed")
                      EXCEPT !.current_vpn_config_basename = None,
                             !.current_vpn_display_name = None,
                             !.current_vpn_status =
                                 IF actual_status = "VPN_ERROR" THEN "VPN_ERROR" ELSE "VPN_OFF"],
                     20))

\* a connect that forgets the profile that is still active
DisconnectPrevious_Skipped(g) == {g}

\* lines 387-390: a profile that is still recorded is disconnected first, silently
DisconnectPrevious(g) ==
    IF g.current_vpn_config_basename # None
    THEN disconnect_vpn(g, TRUE, TRUE)
    ELSE {g}

connect_vpn(g, vpn_def_to_connect) ==
    IF g.current_vpn_config_basename = vpn_def_to_connect.config_basename_no_ext
       /\ g.current_vpn_status = "VPN_ON"
    THEN { [g EXCEPT !.show_vpn_menu = FALSE,
                     !.vpn_call = [NoCall EXCEPT
                                     !.op = "connect_noop",
                                     !.target = vpn_def_to_connect.config_basename_no_ext,
                                     !.before = g.current_vpn_config_basename,
                                     !.before_status = g.current_vpn_status]] }
    ELSE
      LET g0 == [g EXCEPT !.vpn_call = [NoCall EXCEPT
                                     !.op = "connect",
                                     !.target = vpn_def_to_connect.config_basename_no_ext,
                                     !.before = g.current_vpn_config_basename,
                                     !.before_status = g.current_vpn_status]]
          g1 == display_message([g0 EXCEPT !.current_vpn_status = "VPN_CONNECTING"],
                                "VPN: Connecting")
          afterSwitch == DisconnectPrevious(g1)
          new_svc_name == get_vpn_service_name(vpn_def_to_connect.config_basename_no_ext)
      IN  UNION { UNION { ConnectVpnChecked(sleep(run_command(
                                                    [g2 EXCEPT !.vpn_call.during = g2.current_vpn_status],
                                                    "start", new_svc_name), 70),
                                            vpn_def_to_connect,
                                            get_specific_vpn_service_status(new_svc_name, out))
                          : out \in IsActiveOutputs }
                  : g2 \in afterSwitch }

----------------------------------------------------------------------------
(* The status service *)

\* a dict without entries
EmptyDict == [k \in {} |-> <<>>]

\* what the HTTP request of call_raspap_api can come to: requests raises (no
\* connection, timeout), or a response with a status code and a body that is empty,
\* JSON or other text
ApiReplies ==
    { [raised |-> TRUE, status_code |-> 0, content |-> ""] }
    \cup { [raised |-> FALSE, status_code |-> c, content |-> b]
           : c \in {200, 204, 500}, b \in {"", "json", "text"} }

\* call_raspap_api returned None
ApiNone == [ok |-> FALSE, data |-> EmptyDict]

\* lines 220-221: the dict returned for a 204 or an empty body
ApiSuccessDict == [ok |-> TRUE, data |-> [success |-> TRUE]]

\* no read yet, or time has passed since the last one
NoRead ==
    [what |-> "none", fetches |-> 0, returned |-> None, before |-> None,
     api |-> ApiNone, cmd |-> "", proc |-> NoProc]

\* call_raspap_api for a GET: json is the object the body holds when it is JSON
call_raspap_api(api_key, reply, json) ==
    IF ~api_key THEN ApiNone
    ELSE IF reply.raised THEN ApiNone
    ELSE IF reply.status_code = 204 \/ reply.content = "" THEN ApiSuccessDict
    ELSE IF reply.status_code >= 400 THEN ApiNone
    ELSE IF reply.content # "json" THEN ApiNone
    ELSE [ok |-> TRUE, data |-> json]

\* what call_raspap_api can return for an endpoint that holds one of the objects jsons
ApiResults(api_key, jsons) ==
    { call_raspap_api(api_key, reply, json) : reply \in ApiReplies, json \in jsons }

\* Python's truth value of what call_raspap_api returned: None and {} are false
Truthy(r) == r.ok /\ DOMAIN r.data # {}

----------------------------------------------------------------------------
(* system_stats_cache: CPU figures and geolocation, each with its own timestamp *)

\* the first value of time.time() in the program, in seconds: later than 900
StatsClockStart == 1000

\* how often the stats clock advances in a run that is explored
MaxStatsTicks == 4

\* by how many seconds the stats clock advances in one step
StatsTickSizes == {1, 4, 895}

CORE_STATS_MAX_AGE == 5

GEO_MAX_AGE == 900

\* what run_command returns for the thermal zone file: nothing, millidegrees, other text
TempOutputs == {"", "47000", "n/a"}

\* line 503, with the ValueError of int() caught at line 504: degrees
CpuTempOf(t) == IF t = "47000" THEN 47 ELSE 0

\* what run_command returns for the top pipeline: nothing or a percentage
UsageOutputs == {"", "12.5"}

\* line 508: tenths of a percent
CpuUsageOf(c) == IF c = "12.5" THEN 125 ELSE 0

\* what the request of get_external_ip_location can come to
GeoReplies ==
    { [raised |-> TRUE, status_code |-> 0, content |-> ""] }
    \cup { [raised |-> FALSE, status_code |-> c, content |-> b]
           : c \in {200, 500}, b \in {"json", "text"} }

\* the objects ipapi.co can answer with
GeoBodies ==
    { [city |-> "Paris", country_name |-> "France"], [country_name |-> "France"],
      [city |-> "Paris"], EmptyDict }

\* lines 490-491
GeoText(data) ==
    LET co == IF "country_name" \in DOMAIN data THEN data.country_name ELSE "?"
        ci == IF "city" \in DOMAIN data THEN data.city ELSE "?"
    IN  IF ci # "?" /\ co # "?" THEN "Paris, France"
        ELSE IF co # "?" THEN co
        ELSE IF ci # "?" THEN ci
        ELSE "Unknown"

\* did get_external_ip_location leave its try block by the except clause
GeoFetchFailed(reply) ==
    reply.raised \/ reply.status_code >= 400 \/ reply.content # "json"

get_external_ip_location(reply, data) ==
    IF GeoFetchFailed(reply) THEN "Unknown" ELSE GeoText(data)

\* the dict as the module creates it (lines 184-186), timestamps at the epoch
InitialStatsCache ==
    [cpu_temp |-> 0, cpu_usage |-> 0, last_update |-> 0, geo_location |-> "Unknown",
     last_geo_update |-> 0, last_core_stats_update |-> 0]

\* line 500
CoreStatsDue(cache, t) == t - cache.last_core_stats_update > CORE_STATS_MAX_AGE

\* line 512
GeoDue(cache, t, force_geoip_update) ==
    force_geoip_update \/ (t - cache.last_geo_update > GEO_MAX_AGE)

\* update_system_stats on the dict: t is time.time(), the other arguments are what
\* the commands and the geolocation request answer when they are run
update_system_stats_cache(cache, t, force_geoip_update, temp, usage, reply, data) ==
    LET c1 == IF CoreStatsDue(cache, t)
              THEN [cache EXCEPT !.cpu_temp = CpuTempOf(temp),
                                 !.cpu_usage = CpuUsageOf(usage),
                                 !.last_core_stats_update = t]
              ELSE cache
        c2 == IF GeoDue(cache, t, force_geoip_update)
              THEN [c1 EXCEPT !.geo_location = get_external_ip_location(reply, data),
                              !.last_geo_update = t]
              ELSE c1
    IN  [c2 EXCEPT !.last_update = t]

NoStatsCall ==
    [called |-> FALSE, forced |-> FALSE, core_fetched |-> FALSE, geo_fetched |-> FALSE,
     geo_failed |-> FALSE, geo_before |-> "Unknown"]

InitStatsIdle ==
    /\ system_stats_cache = InitialStatsCache
    /\ stats_now = StatsClockStart
    /\ stats_ticks = 0
    /\ stats_call = NoStatsCall

\* one call of update_system_stats; the answers are drawn only for what is fetched
UpdateSystemStats ==
    /\ \E force \in BOOLEAN :
        \E temp \in (IF CoreStatsDue(system_stats_cache, stats_now) THEN TempOutputs ELSE {""}),
           usage \in (IF CoreStatsDue(system_stats_cache, stats_now) THEN UsageOutputs ELSE {""}),
           reply \in (IF GeoDue(system_stats_cache, stats_now, force) THEN GeoReplies
                      ELSE {[raised |-> TRUE, status_code |-> 0, content |-> ""]}),
           data \in (IF GeoDue(system_stats_cache, stats_now, force) THEN GeoBodies
                     ELSE {EmptyDict}) :
          /\ system_stats_cache' =
                 update_system_stats_cache(system_stats_cache, stats_now, force,
                                           temp, usage, reply, data)
          /\ stats_call' =
                 [called |-> TRUE, forced |-> force,
                  geo_before |-> system_stats_cache.geo_location,
                  core_fetched |-> CoreStatsDue(system_stats_cache, stats_now),
                  geo_fetched |-> GeoDue(system_stats_cache, stats_now, force),
                  geo_failed |-> GeoDue(system_stats_cache, stats_now, force)
                                 /\ GeoFetchFailed(reply)]
    /\ UNCHANGED <<stats_now, stats_ticks, loopVars, diffVars, cacheVars, touchVars, lifeVars>>

\* time passes between two calls
StatsTick ==
    /\ stats_ticks < MaxStatsTicks
    /\ \E d \in StatsTickSizes : stats_now' = stats_now + d
    /\ stats_ticks' = stats_ticks + 1
    /\ stats_call' = NoStatsCall
    /\ UNCHANGED <<system_stats_cache, loopVars, diffVars, cacheVars, touchVars, lifeVars>>

NextStats == UpdateSystemStats \/ StatsTick

----------------------------------------------------------------------------
(* Network and hotspot status *)

\* what get_interface_ip and get_host_connected_ssid can find on wlan0
NetProbes == [ip : BOOLEAN, ssid : BOOLEAN]

update_wlan0_connection_status(g) ==
    { [g EXCEPT !.current_wlan0_connection_status =
           IF p.ip THEN "NET_CONNECTED"
           ELSE IF ~p.ssid THEN "NET_DISCONNECTED" ELSE "NET_ASSOCIATED_NO_IP"]
      : p \in env.net }

\* the status service's answer to "system" (no usable answer, hostapdStatus 1, or a
\* dict with another hostapdStatus) and run_command's for "systemctl is-active hostapd"
ApProbes == [api : {"none", "on", "off"}, cmd : {"active", ""}]

\* the objects the status service can hold at "system"
SystemBodies == { [hostapdStatus |-> 1], [hostapdStatus |-> 0], EmptyDict }

\* lines 441-443: what call_raspap_api("system") returned, as the probe sees it
SystemAnswer(data) ==
    IF ~Truthy(data) THEN "none"
    ELSE IF "hostapdStatus" \in DOMAIN data.data /\ data.data.hostapdStatus = 1 THEN "on"
    ELSE "off"

get_ap_hotspot_status_via_api(p) ==
    IF p.api # "none" THEN p.api = "on" ELSE p.cmd = "active"

update_ap_hotspot_status(g) ==
    { [g EXCEPT !.current_ap_hotspot_status =
           IF get_ap_hotspot_status_via_api(p) THEN "AP_ON" ELSE "AP_OFF"]
      : p \in env.ap }

\* toggle_internet_feed_action from its display_message on, with the status read first
ToggleFrom(g) ==
    LET action == IF g.current_wlan0_connection_status = "NET_CONNECTED" THEN "DOWN" ELSE "UP"
        g1 == display_message(g, "Net: Setting")
        g2 == run_command(g1, "ip_link_set", <<"wlan0", action>>)
        g3 == IF action = "UP"
              THEN sleep(run_command(g2, "try_restart", <<"wpa_supplicant">>), 100)
              ELSE g2
    IN  update_wlan0_connection_status(g3)

toggle_internet_feed_action(g) ==
    UNION { ToggleFrom(g1) : g1 \in update_wlan0_connection_status(g) }

reboot_pi(g) ==
    run_command(display_final_message(sleep(display_message(g, "Rebooting..."), 10),
                                      "RaspAP Rebooting"),
                "reboot", None)

shutdown_pi(g) ==
    run_command(display_final_message(sleep(display_message(g, "Shutting down..."), 10),
                                      "RaspAP Powered Off"),
                "shutdown", None)

----------------------------------------------------------------------------
(* Touch input and the screen state machine *)

\* raw GT1151 readings (X[0], Y[0]) that are explored: one inside each button slot,
\* one inside each VPN list row, one on the header, one beyond the panel's range
TouchReadings ==
    { <<17, 44>>, <<46, 44>>, <<75, 44>>, <<104, 44>>,
      <<35, 169>>, <<57, 169>>, <<79, 169>>, <<101, 169>>,
      <<10, 169>>, <<130, 260>> }

\* the mapping with the mirrored axis one pixel off
get_touch_coordinates_OffByOne(r) ==
    LET ui_x == UI_EPD_WIDTH - r[2]
        ui_y == r[1]
    IN  << Max(0, Min(ui_x, UI_EPD_WIDTH - 1)), Max(0, Min(ui_y, UI_EPD_HEIGHT - 1)) >>

\* get_touch_coordinates for a scan that reported a touch at reading r
get_touch_coordinates(r) ==
    LET ui_x == UI_EPD_WIDTH - 1 - r[2]
        ui_y == r[1]
    IN  << Max(0, Min(ui_x, UI_EPD_WIDTH - 1)), Max(0, Min(ui_y, UI_EPD_HEIGHT - 1)) >>

\* x <= tx <= x+w and y <= ty <= y+h
Inside(tx, ty, x, y, w, h) == x <= tx /\ tx <= x + w /\ y <= ty /\ ty <= y + h

\* the name of the first area, in declaration order, that contains the point
FirstHit(areas, tx, ty) ==
    LET hits == { i \in 1..Len(areas) :
                    Inside(tx, ty, areas[i].x, areas[i].y, areas[i].w, areas[i].h) }
    IN  IF hits = {} THEN "None"
        ELSE areas[CHOOSE i \in hits : \A j \in hits : i <= j].name

Pressed(g, name) == [g EXCEPT !.pressed_action_name = name]

\* the list rows of range(offset, min(len, offset + per screen)), 0-based
VisibleRows(g) ==
    { i \in 0..(Len(g.available_vpns) - 1) :
        /\ i >= g.vpn_list_scroll_offset
        /\ i < Min(Len(g.available_vpns), g.vpn_list_scroll_offset + VPN_LIST_ITEMS_PER_SCREEN) }

RowY(g, i) == VPN_LIST_Y_START + (i - g.vpn_list_scroll_offset) * (VPN_LIST_ITEM_HEIGHT + 2)

\* lines 680-689: the first visible row containing the point invokes connect_vpn
VpnRowPress(g, tx, ty) ==
    LET hits == { i \in VisibleRows(g) :
                    Inside(tx, ty, VPN_LIST_X_START, RowY(g, i), VPN_LIST_WIDTH, VPN_LIST_ITEM_HEIGHT) }
    IN  IF hits = {} THEN {g}
        ELSE LET i == CHOOSE k \in hits : \A j \in hits : k <= j
             IN  connect_vpn(Pressed(g, "VPN_CONNECT"), g.available_vpns[i + 1])

\* the navigation buttons with scroll-down allowed one row too far
VpnNavPress_DownOffByOne(g, tx, ty) ==
    LET name == FirstHit(VPN_LIST_NAV_BUTTON_AREAS, tx, ty)
    IN  IF name = "up" /\ g.vpn_list_scroll_offset > 0
        THEN { Pressed([g EXCEPT !.vpn_list_scroll_offset = @ - 1], "VPN_SCROLL_UP") }
        ELSE IF name = "down"
                /\ g.vpn_list_scroll_offset <= Len(g.available_vpns) - VPN_LIST_ITEMS_PER_SCREEN
        THEN { Pressed([g EXCEPT !.vpn_list_scroll_offset = @ + 1], "VPN_SCROLL_DOWN") }
        ELSE IF name = "disconnect" /\ g.current_vpn_status = "VPN_ON"
        THEN { Pressed(h, "VPN_DISCONNECT") : h \in disconnect_vpn(g, FALSE, FALSE) }
        ELSE IF name = "back"
        THEN { [Pressed(g, "VPN_BACK") EXCEPT !.show_vpn_menu = FALSE,
                                              !.action_caused_menu_change = TRUE] }
        ELSE {g}

\* navigation buttons whose disconnect button does not look at the VPN status
VpnNavPress_DisconnectAlways(g, tx, ty) ==
    LET name == FirstHit(VPN_LIST_NAV_BUTTON_AREAS, tx, ty)
    IN  IF name = "up" /\ g.vpn_list_scroll_offset > 0
        THEN { Pressed([g EXCEPT !.vpn_list_scroll_offset = @ - 1], "VPN_SCROLL_UP") }
        ELSE IF name = "down"
                /\ g.vpn_list_scroll_offset < Len(g.available_vpns) - VPN_LIST_ITEMS_PER_SCREEN
        THEN { Pressed([g EXCEPT !.vpn_list_scroll_offset = @ + 1], "VPN_SCROLL_DOWN") }
        ELSE IF name = "disconnect"
        THEN { Pressed(h, "VPN_DISCONNECT") : h \in disconnect_vpn(g, FALSE, FALSE) }
        ELSE IF name = "back"
        THEN { [Pressed(g, "VPN_BACK") EXCEPT !.show_vpn_menu = FALSE,
                                              !.action_caused_menu_change = TRUE] }
        ELSE {g}

\* lines 659-678: the navigation buttons of the VPN menu
VpnNavPress(g, tx, ty) ==
    LET name == FirstHit(VPN_LIST_NAV_BUTTON_AREAS, tx, ty)
    IN  IF name = "up" /\ g.vpn_list_scroll_offset > 0
        THEN { Pressed([g EXCEPT !.vpn_list_scroll_offset = @ - 1], "VPN_SCROLL_UP") }
        ELSE IF name = "down"
                /\ g.vpn_list_scroll_offset < Len(g.available_vpns) - VPN_LIST_ITEMS_PER_SCREEN
        THEN { Pressed([g EXCEPT !.vpn_list_scroll_offset = @ + 1], "VPN_SCROLL_DOWN") }
        ELSE IF name = "disconnect" /\ g.current_vpn_status = "VPN_ON"
        THEN { Pressed(h, "VPN_DISCONNECT") : h \in disconnect_vpn(g, FALSE, FALSE) }
        ELSE IF name = "back"
        THEN { [Pressed(g, "VPN_BACK") EXCEPT !.show_vpn_menu = FALSE,
                                              !.action_caused_menu_change = TRUE] }
        ELSE {g}

VpnMenuPress(g, tx, ty) ==
    UNION { IF h.pressed_action_name = "None" THEN VpnRowPress(h, tx, ty) ELSE {h}
            : h \in VpnNavPress(g, tx, ty) }

\* an info screen whose back button leads to the system menu
InfoScreenPress_BackOpensSystem(g, tx, ty) ==
    LET name == FirstHit(INFO_BUTTON_AREAS, tx, ty)
    IN  IF name = "prev"
        THEN { Pressed([g EXCEPT !.info_page = Max(0, @ - 1)], "INFO_PREV") }
        ELSE IF name = "next"
        THEN { Pressed([g EXCEPT !.info_page = Min(MAX_INFO_PAGES - 1, @ + 1)], "INFO_NEXT") }
        ELSE IF name = "back"
        THEN { [Pressed(g, "INFO_BACK") EXCEPT !.show_info_screen = FALSE,
                                               !.show_system_menu = TRUE,
                                               !.action_caused_menu_change = TRUE] }
        ELSE {g}

\* an info screen whose next button does not stop at the last page
InfoScreenPress_NextUnbounded(g, tx, ty) ==
    LET name == FirstHit(INFO_BUTTON_AREAS, tx, ty)
    IN  IF name = "prev"
        THEN { Pressed([g EXCEPT !.info_page = Max(0, @ - 1)], "INFO_PREV") }
        ELSE IF name = "next"
        THEN { Pressed([g EXCEPT !.info_page = @ + 1], "INFO_NEXT") }
        ELSE IF name = "back"
        THEN { [Pressed(g, "INFO_BACK") EXCEPT !.show_info_screen = FALSE,
                                               !.action_caused_menu_change = TRUE] }
        ELSE {g}

\* lines 691-702
InfoScreenPress(g, tx, ty) ==
    LET name == FirstHit(INFO_BUTTON_AREAS, tx, ty)
    IN  IF name = "prev"
        THEN { Pressed([g EXCEPT !.info_page = Max(0, @ - 1)], "INFO_PREV") }
        ELSE IF name = "next"
        THEN { Pressed([g EXCEPT !.info_page = Min(MAX_INFO_PAGES - 1, @ + 1)], "INFO_NEXT") }
        ELSE IF name = "back"
        THEN { [Pressed(g, "INFO_BACK") EXCEPT !.show_info_screen = FALSE,
                                               !.action_caused_menu_change = TRUE] }
        ELSE {g}

\* lines 703-714
SystemMenuPress(g, tx, ty) ==
    LET name == FirstHit(SYSTEM_BUTTON_AREAS, tx, ty)
    IN  IF name = "reboot" THEN { reboot_pi(Pressed(g, "SYS_REBOOT")) }
        ELSE IF name = "shutdown" THEN { shutdown_pi(Pressed(g, "SYS_SHUTDOWN")) }
        ELSE IF name = "back"
        THEN { [Pressed(g, "SYS_BACK") EXCEPT !.show_system_menu = FALSE,
                                              !.action_caused_menu_change = TRUE] }
        ELSE {g}

\* a main screen whose system button reboots at once
MainScreenPress_SystemReboots(g, tx, ty) ==
    LET name == FirstHit(BUTTON_AREAS, tx, ty)
    IN  IF name = "net_toggle"
        THEN toggle_internet_feed_action(Pressed(g, "MAIN_NET_TOGGLE"))
        ELSE IF name = "vpn_menu"
        THEN { [Pressed(g, "MAIN_VPN_MENU") EXCEPT !.show_vpn_menu = TRUE,
                                                   !.vpn_list_scroll_offset = 0,
                                                   !.action_caused_menu_change = TRUE] }
        ELSE IF name = "system"
        THEN { reboot_pi(Pressed(g, "MAIN_SYSTEM")) }
        ELSE IF name = "info"
        THEN { [Pressed(g, "MAIN_INFO") EXCEPT !.show_info_screen = TRUE,
                                               !.info_page = 0,
                                               !.action_caused_menu_change = TRUE] }
        ELSE {g}

\* lines 715-732
MainScreenPress(g, tx, ty) ==
    LET name == FirstHit(BUTTON_AREAS, tx, ty)
    IN  IF name = "net_toggle"
        THEN toggle_internet_feed_action(Pressed(g, "MAIN_NET_TOGGLE"))
        ELSE IF name = "vpn_menu"
        THEN { [Pressed(g, "MAIN_VPN_MENU") EXCEPT !.show_vpn_menu = TRUE,
                                                   !.vpn_list_scroll_offset = 0,
                                                   !.action_caused_menu_change = TRUE] }
        ELSE IF name = "system"
        THEN { [Pressed(g, "MAIN_SYSTEM") EXCEPT !.show_system_menu = TRUE,
                                                 !.action_caused_menu_change = TRUE] }
        ELSE IF name = "info"
        THEN { [Pressed(g, "MAIN_INFO") EXCEPT !.show_info_screen = TRUE,
                                               !.info_page = 0,
                                               !.action_caused_menu_change = TRUE] }
        ELSE {g}

\* a classification that restarts the cooldown for every handled sample
ClassifyPress_AlwaysStamps(g) ==
    IF g.pressed_action_name # "None"
    THEN [g EXCEPT !.last_button_press = now,
                   !.action_result = IF g.action_caused_menu_change
                                     THEN ACTION_MENU_CHANGE ELSE ACTION_NORMAL_PRESS]
    ELSE [g EXCEPT !.last_button_press = now, !.action_result = ACTION_NONE]

\* lines 734-740
ClassifyPress(g) ==
    IF g.pressed_action_name # "None"
    THEN [g EXCEPT !.last_button_press = now,
                   !.action_result = IF g.action_caused_menu_change
                                     THEN ACTION_MENU_CHANGE ELSE ACTION_NORMAL_PRESS]
    ELSE [g EXCEPT !.action_result = ACTION_NONE]

\* the cooldown test with its comparison turned round
InCooldown_Reversed(g) == now - g.last_button_press > touch_cooldown

\* the cooldown test of line 653
InCooldown(g) == now - g.last_button_press < touch_cooldown

\* check_button_press without the branch for the system menu
check_button_press_NoSystemBranch(g, tx, ty) ==
    IF InCooldown(g) THEN { [g EXCEPT !.action_result = ACTION_NONE] }
    ELSE { ClassifyPress(h) :
             h \in IF g.show_vpn_menu THEN VpnMenuPress(g, tx, ty)
                   ELSE IF g.show_info_screen THEN InfoScreenPress(g, tx, ty)
                   ELSE MainScreenPress(g, tx, ty) }

check_button_press(g, tx, ty) ==
    IF InCooldown(g) THEN { [g EXCEPT !.action_result = ACTION_NONE] }
    ELSE { ClassifyPress(h) :
             h \in IF g.show_vpn_menu THEN VpnMenuPress(g, tx, ty)
                   ELSE IF g.show_info_screen THEN InfoScreenPress(g, tx, ty)
                   ELSE IF g.show_system_menu THEN SystemMenuPress(g, tx, ty)
                   ELSE MainScreenPress(g, tx, ty) }

----------------------------------------------------------------------------
(* Snapshot and change detection *)

\* get_current_display_state, for the fields that are module globals.  The fields it
\* reads from commands and caches on every call (host_ssid, the AP facts, wlan0_ip,
\* CPU and geolocation) are left to the change detector's own specification.
get_current_display_state(g) ==
    [ show_info |-> g.show_info_screen,
      info_pg |-> IF g.show_info_screen THEN g.info_page ELSE -1,
      show_system |-> g.show_system_menu,
      show_vpn |-> g.show_vpn_menu,
      vpn_scroll |-> IF g.show_vpn_menu THEN g.vpn_list_scroll_offset ELSE -1,
      wlan0_conn |-> g.current_wlan0_connection_status,
      ap_hotspot_stat |-> g.current_ap_hotspot_status,
      vpn_stat |-> g.current_vpn_status,
      vpn_name |-> g.current_vpn_display_name ]

\* dict.pop(key, None): the value, and the dict without the key
DictGet(d, key) == IF key \in DOMAIN d THEN d[key] ELSE None

DictWithout(d, key) == [k \in (DOMAIN d) \ {key} |-> d[k]]

\* A cpu_temp string is <<"num", T>> when it is the text f"{T/10:.1f}" of T tenths of a
\* degree, which float() parses, and <<"txt", k>> when float() raises ValueError.
Parses(t_str) == t_str[1] = "num"

\* The temperatures that are explored, in tenths of a degree
Temperatures == {450, 470, 471, 624, 644}

\* float() returns the double nearest to the decimal text.  For the text of T tenths,
\* ten times that double is T + FloatErr[T] * 2^-52 exactly: 45.0 and 47.0 are doubles,
\* 47.1, 62.4 and 64.4 are not.
FloatErr == [T \in Temperatures |->
               CASE T = 450 -> 0
                 [] T = 470 -> 0
                 [] T = 471 -> 64
                 [] T = 624 -> -64
                 [] T = 644 -> 256]

float(t_str) == [tenths |-> t_str[2], err |-> FloatErr[t_str[2]]]

\* a - b of two doubles; exact for the explored values, which lie within a factor of
\* two of each other
FloatSub(a, b) == [tenths |-> a.tenths - b.tenths, err |-> a.err - b.err]

\* abs(): the error term is smaller than one tenth, so the tenths decide the sign
abs(x) ==
    IF x.tenths < 0 \/ (x.tenths = 0 /\ x.err < 0)
    THEN [tenths |-> -x.tenths, err |-> -x.err]
    ELSE x

\* 2.0 degrees, in tenths
temp_delta_threshold == 20

\* x > temp_delta_threshold for a non-negative double x
ExceedsThreshold(x) ==
    x.tenths > temp_delta_threshold \/ (x.tenths = temp_delta_threshold /\ x.err > 0)

\* lines 959-980: the comparison of the two popped temperatures
TempChanged(old_t_str, new_t_str) ==
    IF old_t_str # None /\ new_t_str # None
    THEN IF Parses(new_t_str) /\ Parses(old_t_str)
         THEN ExceedsThreshold(abs(FloatSub(float(new_t_str), float(old_t_str))))
         ELSE old_t_str # new_t_str
    ELSE old_t_str # new_t_str

\* a change detector that looks at the temperature only
have_states_changed_TempOnly(old, new) ==
    IF DOMAIN old = {} THEN TRUE
    ELSE TempChanged(DictGet(old, "cpu_temp"), DictGet(new, "cpu_temp"))

have_states_changed(old, new) ==
    IF DOMAIN old = {} THEN TRUE
    ELSE IF DictWithout(old, "cpu_temp") # DictWithout(new, "cpu_temp") THEN TRUE
    ELSE TempChanged(DictGet(old, "cpu_temp"), DictGet(new, "cpu_temp"))

----------------------------------------------------------------------------
(* Rendering *)

ScreenName(g) ==
    IF g.show_vpn_menu THEN "vpn_menu"
    ELSE IF g.show_info_screen THEN "info_screen"
    ELSE IF g.show_system_menu THEN "system_menu"
    ELSE "main"

\* the status refreshes draw_main_ui_elements makes for the screen it paints
DrawRefresh(g) ==
    IF g.show_vpn_menu THEN {g}
    ELSE IF g.show_info_screen
    THEN IF g.info_page = 0 THEN update_ap_hotspot_status(g) ELSE {g}
    ELSE IF g.show_system_menu THEN {g}
    ELSE UNION { UNION { update_vpn_status(g2) : g2 \in update_ap_hotspot_status(g1) }
                 : g1 \in update_wlan0_connection_status(g) }

draw_main_ui_elements(g) ==
    { display_on_epd(h, ScreenName(h)) : h \in DrawRefresh(update_system_stats(g, FALSE)) }

----------------------------------------------------------------------------
(* main() *)

\* a stored timestamp after d tenths have passed, kept no further back than floor
Passed(timestamp, d, floor) == Max(timestamp - d, floor)

Commit(g) ==
    /\ show_system_menu' = g.show_system_menu
    /\ show_info_screen' = g.show_info_screen
    /\ show_vpn_menu' = g.show_vpn_menu
    /\ info_page' = g.info_page
    /\ vpn_list_scroll_offset' = g.vpn_list_scroll_offset
    /\ current_wlan0_connection_status' = g.current_wlan0_connection_status
    /\ current_ap_hotspot_status' = g.current_ap_hotspot_status
    /\ current_vpn_status' = g.current_vpn_status
    /\ current_vpn_config_basename' = g.current_vpn_config_basename
    /\ current_vpn_display_name' = g.current_vpn_display_name
    /\ available_vpns' = g.available_vpns
    /\ trace' = g.trace

\* the network and hotspot probes always find wlan0 connected and the hotspot on
SteadyStatusEnv ==
    [ net |-> {[ip |-> TRUE, ssid |-> TRUE]},
      ap |-> {[api |-> "on", cmd |-> "active"]},
      api_key |-> TRUE ]

\* the same with RASPAP_API_KEY unset: the status service is never asked
KeylessEnv ==
    [ net |-> {[ip |-> TRUE, ssid |-> TRUE]},
      ap |-> {[api |-> "none", cmd |-> "active"]},
      api_key |-> FALSE ]

\* the module's globals when main() is entered
InitLoopState ==
    /\ pc = "startup"
    /\ show_system_menu = FALSE
    /\ show_info_screen = FALSE
    /\ show_vpn_menu = FALSE
    /\ info_page = 0
    /\ vpn_list_scroll_offset = 0
    /\ last_button_press = now - touch_cooldown      \* 0, the epoch: long ago
    /\ current_wlan0_connection_status = "INIT"
    /\ current_ap_hotspot_status = "INIT"
    /\ current_vpn_status = "INIT"
    /\ current_vpn_config_basename = None
    /\ current_vpn_display_name = None
    /\ available_vpns = <<>>
    /\ touch_instance = FALSE
    /\ g_ignore_touch_input_temporarily = FALSE
    /\ g_ignore_touch_until_timestamp = now          \* 0, the epoch: not in the future
    /\ last_displayed_state = <<>>
    /\ loop_counter = 0
    /\ polled = FALSE
    /\ sample = None
    /\ action_result = ACTION_NONE
    /\ redraw = FALSE
    /\ trace = <<>>
    /\ vpn_call = NoCall
    /\ gt_dev_data = "idle"
    /\ refreshed = FALSE

InitLoop == env = SteadyStatusEnv /\ InitLoopState

\* load_vpn_connections: a list of n entries
load_vpn_connections(g, n) == [g EXCEPT !.available_vpns = [i \in 1..n |-> VpnDef(i)]]

\* lines 1053-1062: the states main() can be in before its first snapshot
StartupStates(n) ==
    UNION { UNION { update_ap_hotspot_status(g2)
                    : g2 \in update_wlan0_connection_status(
                                update_system_stats(
                                   sleep(display_message(g1, "Initializing..."), 10), TRUE)) }
            : g1 \in update_vpn_status_initial(load_vpn_connections(Globals, n)) }

\* main() up to "Starting main loop..." (lines 1034-1069)
Startup ==
    /\ pc = "startup"
    /\ \E n \in 0..MaxProfiles, touch \in BOOLEAN :
         \E g3 \in StartupStates(n) :
           \E g4 \in draw_main_ui_elements(g3) :
              /\ Commit(g4)
              /\ touch_instance' = touch
              /\ last_displayed_state' = get_current_display_state(g3)
    /\ loop_counter' = 0
    /\ pc' = "input"
    /\ UNCHANGED <<env, last_button_press, g_ignore_touch_input_temporarily,
                   g_ignore_touch_until_timestamp, polled, sample, action_result,
                   redraw, vpn_call, gt_dev_data, refreshed>>
    /\ UNCHANGED <<diffVars, cacheVars, statsVars, touchVars, lifeVars>>

\* lines 1076-1080: the flag after the ignore window was managed
IgnoreAfterExpiry ==
    IF g_ignore_touch_input_temporarily /\ now < g_ignore_touch_until_timestamp
    THEN TRUE
    ELSE FALSE

\* a poll that does not look at the ignore flag
PollAllowed_IgnoresWindow == touch_instance

\* line 1082
PollAllowed == ~IgnoreAfterExpiry /\ touch_instance

\* what get_touch_coordinates can return when it is called
PollResults == {None} \cup { get_touch_coordinates(r) : r \in TouchReadings }

\* lines 1086-1088
HandleSample(s) ==
    IF s # None THEN check_button_press(Globals, s[1], s[2]) ELSE {Globals}

\* current_gt_dev_data after the poll and lines 1099-1101: "sample" with Touch = 1 and
\* TouchCount > 0 of a scan that returned coordinates, "cleared" with both set to 0
\* after a menu change, "idle" when no coordinates were returned.  The next poll's
\* answer is drawn freely, so the value is kept to the end of the iteration only.
TouchDataAfter(s, result) ==
    IF result = ACTION_MENU_CHANGE /\ touch_instance THEN "cleared"
    ELSE IF s # None THEN "sample"
    ELSE "idle"

\* lines 1071-1101 of an iteration: ignore window, poll, press handling, arming
Input ==
    /\ pc = "input"
    /\ \E s \in (IF PollAllowed THEN PollResults ELSE {None}) :
         \E g \in HandleSample(s) :
            /\ Commit(g)
            /\ sample' = s
            /\ action_result' = g.action_result
            /\ vpn_call' = g.vpn_call
            /\ gt_dev_data' = TouchDataAfter(s, g.action_result)
            /\ last_button_press' = Passed(g.last_button_press, g.slept, now - touch_cooldown)
            /\ redraw' = (g.action_result \in {ACTION_NORMAL_PRESS, ACTION_MENU_CHANGE})
            /\ g_ignore_touch_input_temporarily' =
                   IF g.action_result = ACTION_MENU_CHANGE THEN TRUE ELSE IgnoreAfterExpiry
            /\ g_ignore_touch_until_timestamp' =
                   IF g.action_result = ACTION_MENU_CHANGE THEN now + IGNORE_TOUCH_SPAN
                   ELSE Passed(g_ignore_touch_until_timestamp, g.slept, now)
    /\ polled' = PollAllowed
    /\ loop_counter' = (loop_counter + 1) % PERIODIC_EVERY
    /\ pc' = "periodic"
    /\ UNCHANGED <<env, touch_instance, last_displayed_state, refreshed>>
    /\ UNCHANGED <<diffVars, cacheVars, statsVars, touchVars, lifeVars>>

\* lines 1104-1107
PeriodicRefresh(g) ==
    UNION { UNION { update_vpn_status(g2) : g2 \in update_ap_hotspot_status(g1) }
            : g1 \in update_wlan0_connection_status(update_system_stats(g, FALSE)) }

\* a periodic part that is skipped while the ignore window is active
Periodic_NotInIgnoreWindow ==
    /\ pc = "periodic"
    /\ \E g \in (IF loop_counter % PERIODIC_EVERY = 0 /\ ~g_ignore_touch_input_temporarily
                 THEN PeriodicRefresh(Globals) ELSE {Globals}) :
         Commit(g)
    /\ refreshed' = (loop_counter % PERIODIC_EVERY = 0 /\ ~g_ignore_touch_input_temporarily)
    /\ sample' = None
    /\ vpn_call' = NoCall
    /\ pc' = "render"
    /\ UNCHANGED <<env, last_button_press, touch_instance, g_ignore_touch_input_temporarily,
                   g_ignore_touch_until_timestamp, last_displayed_state, loop_counter,
                   polled, action_result, redraw, gt_dev_data>>
    /\ UNCHANGED <<diffVars, cacheVars, statsVars, touchVars, lifeVars>>

\* lines 1103-1107 of an iteration
Periodic ==
    /\ pc = "periodic"
    /\ \E g \in (IF loop_counter % PERIODIC_EVERY = 0 THEN PeriodicRefresh(Globals) ELSE {Globals}) :
         Commit(g)
    /\ refreshed' = (loop_counter % PERIODIC_EVERY = 0)
    /\ sample' = None                     \* tx, ty are not read after line 1088
    /\ vpn_call' = NoCall
    /\ pc' = "render"
    /\ UNCHANGED <<env, last_button_press, touch_instance, g_ignore_touch_input_temporarily,
                   g_ignore_touch_until_timestamp, last_displayed_state, loop_counter,
                   polled, action_result, redraw, gt_dev_data>>
    /\ UNCHANGED <<diffVars, cacheVars, statsVars, touchVars, lifeVars>>

\* a redraw decision that looks at the press only
RedrawDecision_PressOnly == redraw

\* lines 1109-1113
RedrawDecision ==
    redraw \/ have_states_changed(last_displayed_state, get_current_display_state(Globals))

\* lines 1109-1120 of an iteration: snapshot, change detection, redraw, sleep
Render ==
    /\ pc = "render"
    /\ IF RedrawDecision
       THEN /\ \E g \in draw_main_ui_elements(Globals) : Commit(g)
            /\ last_displayed_state' = get_current_display_state(Globals)
       ELSE /\ Commit(Globals)
            /\ UNCHANGED last_displayed_state
    /\ redraw' = RedrawDecision
    /\ \E extra \in 0..MaxExtraDelay :
         /\ last_button_press' = Passed(last_button_press, 1 + extra, now - touch_cooldown)
         /\ g_ignore_touch_until_timestamp' = Passed(g_ignore_touch_until_timestamp, 1 + extra, now)
    /\ polled' = FALSE                    \* the iteration's locals end with it
    /\ action_result' = ACTION_NONE
    /\ gt_dev_data' = "idle"
    /\ refreshed' = FALSE
    /\ pc' = "input"
    /\ UNCHANGED <<env, touch_instance, g_ignore_touch_input_temporarily, loop_counter,
                   sample, vpn_call>>
    /\ UNCHANGED <<diffVars, cacheVars, statsVars, touchVars, lifeVars>>

InitDiffIdle == diff_old = <<>> /\ diff_new = <<>> /\ diff_result = FALSE /\ diff_pc = "call"

InitCacheIdle ==
    /\ ap_ssid_cache = [ssid |-> None, timestamp |-> 0]
    /\ ap_clients_cache = [clients |-> None, timestamp |-> 0]
    /\ cache_now = 0
    /\ cache_read = NoRead

InitTouchIdle == touch_reading = <<0, 0>> /\ touch_coords = None /\ touch_pc = "scan"

\* main() before line 992: no instance, nothing called, nothing raised
NoLife == [epd_instance |-> FALSE, init_success |-> FALSE, entered_loop |-> FALSE,
           iterations |-> 0, raised |-> "none", raised_in |-> "none",
           exit_code |-> 0]

InitLifeIdle == life_pc = "create" /\ panel_calls = <<>> /\ life = NoLife

Init == InitLoop /\ InitDiffIdle /\ InitCacheIdle /\ InitStatsIdle /\ InitTouchIdle /\ InitLifeIdle

Next == Startup \/ Input \/ Periodic \/ Render

Spec == Init /\ [][Next]_vars

----------------------------------------------------------------------------
(* The change detector on its own: have_states_changed applied to every     *)
(* pair of snapshots over a few fields                                      *)

TempStrings == { <<"num", T>> : T \in Temperatures } \cup { <<"txt", 1>>, <<"txt", 2>> }

VpnStats == {"VPN_ON", "VPN_OFF"}

GeoLocs == {"Unknown", "Paris, France"}

\* snapshots holding any of vpn_stat and geo_loc
SnapshotsWithoutTemp ==
    { [vpn_stat |-> v, geo_loc |-> l] : v \in VpnStats, l \in GeoLocs }
    \cup { [vpn_stat |-> v] : v \in VpnStats }
    \cup { [geo_loc |-> l] : l \in GeoLocs }
    \cup { EmptyDict }

DiffSnapshots ==
    SnapshotsWithoutTemp
    \cup { [k \in (DOMAIN d) \cup {"cpu_temp"} |-> IF k = "cpu_temp" THEN t ELSE d[k]]
           : d \in SnapshotsWithoutTemp, t \in TempStrings }

InitDiff ==
    /\ InitLoop
    /\ InitCacheIdle
    /\ InitStatsIdle
    /\ InitTouchIdle
    /\ InitLifeIdle
    /\ diff_old \in DiffSnapshots
    /\ diff_new \in DiffSnapshots
    /\ diff_result = FALSE
    /\ diff_pc = "call"

Compare ==
    /\ diff_pc = "call"
    /\ diff_result' = have_states_changed(diff_old, diff_new)
    /\ diff_pc' = "returned"
    /\ UNCHANGED <<diff_old, diff_new, loopVars, cacheVars, statsVars, touchVars, lifeVars>>

NextDiff == Compare

SpecDiff == InitDiff /\ [][NextDiff]_vars

----------------------------------------------------------------------------
(* The snapshot bookkeeping of the main loop on its own: lines 1109-1118    *)
(* over snapshots that hold the temperature                                 *)

\* get_current_display_state always returns the screen flags: no snapshot is empty
LoopSnapshots == DiffSnapshots \ {EmptyDict}

\* line 1064: last_displayed_state is the snapshot taken before the loop
InitPersist ==
    /\ InitLoop
    /\ InitCacheIdle
    /\ InitStatsIdle
    /\ InitTouchIdle
    /\ InitLifeIdle
    /\ diff_old \in LoopSnapshots
    /\ diff_new = diff_old
    /\ diff_result = FALSE
    /\ diff_pc = "build"

\* lines 1089-1109: redraw as the press left it, and the iteration's snapshot
BuildSnapshot ==
    /\ diff_pc = "build"
    /\ diff_result' \in BOOLEAN
    /\ diff_new' \in LoopSnapshots
    /\ diff_pc' = "decide"
    /\ UNCHANGED <<diff_old, loopVars, cacheVars, statsVars, touchVars, lifeVars>>

\* lines 1110-1118: the decision, and the assignment of last_displayed_state
PersistSnapshot ==
    /\ diff_pc = "decide"
    /\ LET r == diff_result \/ have_states_changed(diff_old, diff_new)
       IN  /\ diff_result' = r
           /\ diff_old' = IF r THEN diff_new ELSE diff_old
    /\ diff_pc' = "build"
    /\ UNCHANGED <<diff_new, loopVars, cacheVars, statsVars, touchVars, lifeVars>>

NextPersist == BuildSnapshot \/ PersistSnapshot

SpecPersist == InitPersist /\ [][NextPersist]_vars

----------------------------------------------------------------------------
(* The AP caches on their own: reads of the client count and of the SSID    *)
(* at times that advance by whole seconds                                   *)

\* the last second of the clock that is explored
MaxCacheClock == 12

CACHE_AP_SSID_DURATION == 10

CACHE_AP_CLIENTS_DURATION == 5

\* a cached value that is not None
Some(x) == <<x>>

\* the objects the status service can hold at "clients/wlan1", active_clients standing
\* for the length of the list
ClientsBodies == { [active_clients |-> 3], [active_clients |-> 4], EmptyDict }

\* the objects the status service can hold at "ap"
SsidBodies == { [ssid |-> "raspi-webgui"], EmptyDict }

\* line 250: what get_cached_ap_clients reads out of call_raspap_api's return value
ClientsDetails(r) ==
    [answered |-> Truthy(r),
     has_field |-> "active_clients" \in DOMAIN r.data,
     n |-> IF "active_clients" \in DOMAIN r.data THEN r.data.active_clients ELSE 0]

\* line 236: what get_cached_ap_ssid reads out of call_raspap_api's return value
ApDetails(r) ==
    [answered |-> Truthy(r),
     has_field |-> "ssid" \in DOMAIN r.data,
     ssid |-> IF "ssid" \in DOMAIN r.data THEN r.data.ssid ELSE ""]

\* a client-count cache that still serves a value exactly ttl seconds old
get_cached_ap_clients_InclusiveTtl(cache, t, clients_details) ==
    IF cache.clients # None /\ (t - cache.timestamp <= CACHE_AP_CLIENTS_DURATION)
    THEN [cache |-> cache, returned |-> cache.clients, fetches |-> 0]
    ELSE LET clients == IF clients_details.answered /\ clients_details.has_field
                        THEN Some(clients_details.n) ELSE Some(0)
         IN  [cache |-> [clients |-> clients, timestamp |-> t],
              returned |-> clients, fetches |-> 1]

\* the cache after the call, what the call returned and how often it called the service
get_cached_ap_clients(cache, t, clients_details) ==
    IF cache.clients # None /\ (t - cache.timestamp < CACHE_AP_CLIENTS_DURATION)
    THEN [cache |-> cache, returned |-> cache.clients, fetches |-> 0]
    ELSE LET clients == IF clients_details.answered /\ clients_details.has_field
                        THEN Some(clients_details.n) ELSE Some(0)
         IN  [cache |-> [clients |-> clients, timestamp |-> t],
              returned |-> clients, fetches |-> 1]

\* an SSID cache that keeps the value it holds when the status service gives no answer
get_cached_ap_ssid_KeepsOnFailure(cache, t, ap_details) ==
    IF cache.ssid # None /\ (t - cache.timestamp < CACHE_AP_SSID_DURATION)
    THEN [cache |-> cache, returned |-> cache.ssid, fetches |-> 0]
    ELSE LET ssid == IF ap_details.answered /\ ap_details.has_field
                     THEN Some(ap_details.ssid)
                     ELSE IF cache.ssid # None THEN cache.ssid ELSE Some("N/A")
         IN  [cache |-> [ssid |-> ssid, timestamp |-> t],
              returned |-> ssid, fetches |-> 1]

get_cached_ap_ssid(cache, t, ap_details) ==
    IF cache.ssid # None /\ (t - cache.timestamp < CACHE_AP_SSID_DURATION)
    THEN [cache |-> cache, returned |-> cache.ssid, fetches |-> 0]
    ELSE LET ssid == IF ap_details.answered /\ ap_details.has_field
                     THEN Some(ap_details.ssid) ELSE Some("N/A")
         IN  [cache |-> [ssid |-> ssid, timestamp |-> t],
              returned |-> ssid, fetches |-> 1]

ReadApClients ==
    /\ \E api \in ApiResults(env.api_key, ClientsBodies) :
         LET r == get_cached_ap_clients(ap_clients_cache, cache_now, ClientsDetails(api))
         IN  /\ ap_clients_cache' = r.cache
             /\ cache_read' = [what |-> "clients", fetches |-> r.fetches,
                               returned |-> r.returned, before |-> ap_clients_cache,
                               api |-> IF r.fetches = 0 THEN ApiNone ELSE api, cmd |-> "",
                               proc |-> NoProc]
    /\ UNCHANGED <<ap_ssid_cache, cache_now, loopVars, diffVars, statsVars, touchVars, lifeVars>>

ReadApSsid ==
    /\ \E api \in ApiResults(env.api_key, SsidBodies) :
         LET r == get_cached_ap_ssid(ap_ssid_cache, cache_now, ApDetails(api))
         IN  /\ ap_ssid_cache' = r.cache
             /\ cache_read' = [what |-> "ssid", fetches |-> r.fetches,
                               returned |-> r.returned, before |-> ap_ssid_cache,
                               api |-> IF r.fetches = 0 THEN ApiNone ELSE api, cmd |-> "",
                               proc |-> NoProc]
    /\ UNCHANGED <<ap_clients_cache, cache_now, loopVars, diffVars, statsVars, touchVars, lifeVars>>

\* a second passes between two reads
CacheTick ==
    /\ cache_now < MaxCacheClock
    /\ cache_now' = cache_now + 1
    /\ cache_read' = NoRead
    /\ UNCHANGED <<ap_ssid_cache, ap_clients_cache, loopVars, diffVars, statsVars, touchVars, lifeVars>>

\* the caches of a run with the API key set and of one without it
InitCache ==
    /\ env \in {SteadyStatusEnv, KeylessEnv}
    /\ InitLoopState
    /\ InitDiffIdle
    /\ InitCacheIdle
    /\ InitStatsIdle
    /\ InitTouchIdle
    /\ InitLifeIdle

NextCache == ReadApClients \/ ReadApSsid \/ CacheTick

SpecCache == InitCache /\ [][NextCache]_vars

----------------------------------------------------------------------------
(* update_system_stats on its own, at times that advance by seconds and by *)
(* a quarter of an hour                                                    *)

SpecStats == Init /\ [][NextStats]_vars

----------------------------------------------------------------------------
(* The AP caches and update_system_stats in one specification.  They share  *)
(* no variable; the runs explored use one of the two only.                  *)

NextFetch == (InitStatsIdle /\ NextCache) \/ (InitCacheIdle /\ NextStats)

SpecFetch == InitCache /\ [][NextFetch]_vars

----------------------------------------------------------------------------
(* The probes that ask a service and a command: the hotspot status and the  *)
(* VPN health check, each called once with every answer it can get          *)

\* get_ap_hotspot_status_via_api: the status service is asked, and the command when
\* its answer is not usable; proc is how "systemctl is-active hostapd" ends at that time
ReadHotspot ==
    /\ \E api \in ApiResults(env.api_key, SystemBodies) :
         \E proc \in IsActiveProcs :
            LET out == run_command_output(proc)
                p == [api |-> SystemAnswer(api), cmd |-> out]
            IN  cache_read' = [what |-> "hotspot", fetches |-> 1,
                               returned |-> Some(get_ap_hotspot_status_via_api(p)),
                               before |-> None, api |-> api, cmd |-> out, proc |-> proc]
    /\ UNCHANGED <<ap_ssid_cache, ap_clients_cache, cache_now, loopVars, diffVars, statsVars, touchVars, lifeVars>>

\* the service names of the profiles, and no name
ServiceNames ==
    {None} \cup { get_vpn_service_name(VpnDef(i).config_basename_no_ext) : i \in 1..MaxProfiles }

\* get_specific_vpn_service_status with the command of line 328, run unless the name
\* is missing
CheckVpnService ==
    /\ \E service_name_to_check \in ServiceNames :
         \E proc \in (IF service_name_to_check = None THEN {NoProc} ELSE IsActiveProcs) :
            LET out == run_command_output(proc)
            IN  cache_read' = [what |-> "vpn_health",
                               fetches |-> IF service_name_to_check = None THEN 0 ELSE 1,
                               returned |-> Some(get_specific_vpn_service_status(
                                                    service_name_to_check, out)),
                               before |-> service_name_to_check, api |-> ApiNone,
                               cmd |-> out, proc |-> proc]
    /\ UNCHANGED <<ap_ssid_cache, ap_clients_cache, cache_now, loopVars, diffVars, statsVars, touchVars, lifeVars>>

NextProbe == ReadHotspot \/ CheckVpnService

SpecProbe == InitCache /\ [][NextProbe]_vars

----------------------------------------------------------------------------
(* connect_vpn and disconnect_vpn called once, from the VPN menu, in every   *)
(* VPN state the loop can bring about                                       *)

\* the recorded profile and status between two steps of the loop, for n profiles
VpnStates(n) ==
    { [status |-> "VPN_OFF", def |-> [name |-> None, config_basename_no_ext |-> None]] }
    \cup { [status |-> st, def |-> VpnDef(i)] :
             i \in 1..n, st \in {"VPN_ON", "VPN_ERROR", "VPN_OFF"} }

VpnSetup ==
    /\ pc = "startup"
    /\ \E n \in 1..MaxProfiles :
         \E v \in VpnStates(n) :
            Commit([load_vpn_connections(Globals, n) EXCEPT
                       !.show_vpn_menu = TRUE,
                       !.current_vpn_status = v.status,
                       !.current_vpn_config_basename = v.def.config_basename_no_ext,
                       !.current_vpn_display_name = v.def.name])
    /\ pc' = "vpn_call"
    /\ UNCHANGED <<env, last_button_press, touch_instance, g_ignore_touch_input_temporarily,
                   g_ignore_touch_until_timestamp, last_displayed_state, loop_counter,
                   polled, sample, action_result, redraw, vpn_call, gt_dev_data,
                   refreshed>>
    /\ UNCHANGED <<diffVars, cacheVars, statsVars, touchVars, lifeVars>>

CallDisconnect ==
    /\ pc = "vpn_call"
    /\ \E silent \in BOOLEAN, called_during_connect \in BOOLEAN :
         \E g \in disconnect_vpn(Globals, silent, called_during_connect) :
            /\ Commit(g)
            /\ vpn_call' = g.vpn_call
    /\ pc' = "vpn_returned"
    /\ UNCHANGED <<env, last_button_press, touch_instance, g_ignore_touch_input_temporarily,
                   g_ignore_touch_until_timestamp, last_displayed_state, loop_counter,
                   polled, sample, action_result, redraw, gt_dev_data, refreshed>>
    /\ UNCHANGED <<diffVars, cacheVars, statsVars, touchVars, lifeVars>>

CallConnect ==
    /\ pc = "vpn_call"
    /\ \E i \in 1..Len(available_vpns) :
         \E g \in connect_vpn(Globals, available_vpns[i]) :
            /\ Commit(g)
            /\ vpn_call' = g.vpn_call
    /\ pc' = "vpn_returned"
    /\ UNCHANGED <<env, last_button_press, touch_instance, g_ignore_touch_input_temporarily,
                   g_ignore_touch_until_timestamp, last_displayed_state, loop_counter,
                   polled, sample, action_result, redraw, gt_dev_data, refreshed>>
    /\ UNCHANGED <<diffVars, cacheVars, statsVars, touchVars, lifeVars>>

NextVpn == VpnSetup \/ CallDisconnect \/ CallConnect

SpecVpn == Init /\ [][NextVpn]_vars

----------------------------------------------------------------------------
(* get_touch_coordinates on its own, for every reading of the sensor and    *)
(* readings beyond its range                                                *)

\* the sensor reports X along the panel's short side and Y along its long side
PHYSICAL_EPD_WIDTH == 122

PHYSICAL_EPD_HEIGHT == 250

\* how far beyond the sensor's range the readings that are explored lie
RawMargin == 2

RawReadings ==
    ((0 - RawMargin)..(PHYSICAL_EPD_WIDTH - 1 + RawMargin))
       \X ((0 - RawMargin)..(PHYSICAL_EPD_HEIGHT - 1 + RawMargin))

InitTouch ==
    /\ InitLoop
    /\ InitDiffIdle
    /\ InitCacheIdle
    /\ InitStatsIdle
    /\ touch_reading \in RawReadings
    /\ touch_coords = None
    /\ touch_pc = "scan"
    /\ InitLifeIdle

\* lines 626-629 for a scan with TouchCount > 0
MapReading ==
    /\ touch_pc = "scan"
    /\ touch_coords' = get_touch_coordinates(touch_reading)
    /\ touch_pc' = "mapped"
    /\ UNCHANGED <<touch_reading, loopVars, diffVars, cacheVars, statsVars, lifeVars>>

SpecTouch == InitTouch /\ [][MapReading]_vars

----------------------------------------------------------------------------
(* main() from the creation of the panel driver to the end of the process:  *)
(* which hooks of the panel are called, in which order, for every way the   *)
(* set-up, an iteration of the loop and the clean-up can end                *)

\* the longest run of loop iterations that is explored
MaxLifeIterations == 3

\* an exception of kind k leaves the try block of main() from position at
Raise(k, at) == [life EXCEPT !.raised = k, !.raised_in = at]

\* init failures that do not end main()
AfterInit_Lenient(outcome) == "setup"

\* lines 995-1023: main() goes on after init() only when it succeeded
AfterInit(outcome) == IF outcome = "ok" THEN "setup" ELSE "cleanup"

\* line 992
CreatePanel ==
    /\ life_pc = "create"
    /\ \E outcome \in {"ok", "raises"} :
         IF outcome = "ok"
         THEN /\ life' = [life EXCEPT !.epd_instance = TRUE]
              /\ life_pc' = "init"
         ELSE /\ life' = Raise("Exception", "create")
              /\ life_pc' = "cleanup"
    /\ UNCHANGED <<panel_calls, loopVars, diffVars, cacheVars, statsVars, touchVars>>

\* lines 994-1023: init() returns, returns -1, raises, or is no method of the driver
InitPanel ==
    /\ life_pc = "init"
    /\ \E outcome \in {"ok", "minus1", "raises", "no_method"} :
         /\ panel_calls' = IF outcome = "no_method" THEN panel_calls
                           ELSE Append(panel_calls, "init")
         /\ life' = IF outcome = "ok" THEN [life EXCEPT !.init_success = TRUE]
                    ELSE Raise("SystemExit", "init")
         /\ life_pc' = AfterInit(outcome)
    /\ UNCHANGED <<loopVars, diffVars, cacheVars, statsVars, touchVars>>

\* lines 1025-1066: Clear, the image buffer, the touch driver, the first message and
\* the first draw; an exception can leave after each of them
SetupPanel ==
    /\ life_pc = "setup"
    /\ \E done \in 0..3 :
         /\ panel_calls' = panel_calls \o SubSeq(<<"Clear", "display", "display">>, 1, done)
         /\ IF done = 3
            THEN /\ life' = [life EXCEPT !.entered_loop = TRUE]
                 /\ life_pc' = "loop"
            ELSE /\ \E k \in {"IOError", "Exception"} : life' = Raise(k, "setup")
                 /\ life_pc' = "cleanup"
    /\ UNCHANGED <<loopVars, diffVars, cacheVars, statsVars, touchVars>>

\* lines 1070-1120: an iteration that draws nothing, draws a frame, shows a message and
\* draws, or is left by an exception before or after a frame
Iterate ==
    /\ life_pc = "loop"
    /\ life.iterations < MaxLifeIterations
    /\ \E frames \in 0..2, k \in {"none", "IOError", "KeyboardInterrupt", "Exception"} :
         /\ panel_calls' = panel_calls \o SubSeq(<<"display", "display">>, 1, frames)
         /\ IF k = "none"
            THEN /\ life' = [life EXCEPT !.iterations = @ + 1]
                 /\ life_pc' = "loop"
            ELSE /\ life' = Raise(k, "loop")
                 /\ life_pc' = "cleanup"
    /\ UNCHANGED <<loopVars, diffVars, cacheVars, statsVars, touchVars>>

\* lines 1130-1136: the panel is put to sleep when there is an instance; an error of
\* sleep() is logged
SleepPanel ==
    /\ life_pc = "cleanup"
    /\ panel_calls' = IF life.epd_instance THEN Append(panel_calls, "sleep") ELSE panel_calls
    /\ life_pc' = "teardown"
    /\ UNCHANGED <<life, loopVars, diffVars, cacheVars, statsVars, touchVars>>

\* lines 1138-1150: module_exit of the driver configuration, or Dev_exit of the panel
\* when the configuration has none; then main() ends, with status 1 after sys.exit(1)
Teardown ==
    /\ life_pc = "teardown"
    /\ \E has_module_exit \in BOOLEAN :
         panel_calls' = IF has_module_exit THEN Append(panel_calls, "module_exit")
                        ELSE IF life.epd_instance THEN Append(panel_calls, "Dev_exit")
                        ELSE panel_calls
    /\ life' = [life EXCEPT !.exit_code = IF life.raised = "SystemExit" THEN 1 ELSE 0]
    /\ life_pc' = "exited"
    /\ UNCHANGED <<loopVars, diffVars, cacheVars, statsVars, touchVars>>

NextLife == CreatePanel \/ InitPanel \/ SetupPanel \/ Iterate \/ SleepPanel \/ Teardown

SpecLife == Init /\ [][NextLife]_vars

----------------------------------------------------------------------------
(* Properties *)

\* the VPN service commands of the last step, in the order they were issued
VpnCommands == SelectSeq(trace, LAMBDA e : e.kind = "cmd" /\ e.op \in {"start", "stop"})

\* the input step of this iteration ran connect_vpn past its already-active test
ConnectReturned == pc = "periodic" /\ vpn_call.op = "connect"

\* C1: after connect_vpn(B) returns, with another profile or none active before, the
\* active profile is B iff B's post-connect health check reported active; otherwise
\* there is no active profile and the status is Error after an indeterminate check
\* and Off after an inactive or failed one.
C1_ConnectOutcomeFollowsHealthCheck ==
    (ConnectReturned /\ vpn_call.before # vpn_call.target) =>
        /\ (current_vpn_config_basename = vpn_call.target) <=> (vpn_call.health = "VPN_ON")
        /\ (vpn_call.health # "VPN_ON") =>
              /\ current_vpn_config_basename = None
              /\ current_vpn_display_name = None
              /\ current_vpn_status = vpn_call.health

\* C2: connect_vpn(B) while another profile A is recorded issues exactly the stop of
\* A's service and then the start of B's service and no other VPN start or stop; with
\* no profile recorded it issues the start of B only.
C2_SwitchStopsThenStarts ==
    ConnectReturned =>
        /\ (vpn_call.before # None /\ vpn_call.before # vpn_call.target) =>
              VpnCommands = << Ev("cmd", "stop", get_vpn_service_name(vpn_call.before)),
                               Ev("cmd", "start", get_vpn_service_name(vpn_call.target)) >>
        /\ (vpn_call.before = None) =>
              VpnCommands = << Ev("cmd", "start", get_vpn_service_name(vpn_call.target)) >>

\* a connect_vpn(B) has returned that found another profile A recorded
C2_Witness ==
    ConnectReturned /\ vpn_call.before # None /\ vpn_call.before # vpn_call.target

\* C3: once the main loop runs, the active profile's key and display name are both
\* None iff the VPN status is Off or Error.
C3_ProfileNoneIffOffOrError ==
    (pc # "startup") =>
        ((current_vpn_config_basename = None /\ current_vpn_display_name = None)
           <=> current_vpn_status \in {"VPN_OFF", "VPN_ERROR"})

\* C4: an iteration that begins with the ignore window active and until in the future
\* does not query the pointer source and handles no press; one that begins with the
\* window expired or inactive polls (when the touch driver initialised), and the
\* window is active after it only if that iteration's press armed it again.
C4_IgnoreWindowSkipsPolling ==
    [][ (pc = "input") =>
          IF g_ignore_touch_input_temporarily /\ now < g_ignore_touch_until_timestamp
          THEN ~polled' /\ sample' = None /\ action_result' = ACTION_NONE
          ELSE /\ touch_instance => polled'
               /\ g_ignore_touch_input_temporarily' => action_result' = ACTION_MENU_CHANGE
      ]_vars

\* an iteration skipped the poll because the window it began in had not expired
C4_Witness ==
    /\ pc = "periodic"
    /\ touch_instance
    /\ ~polled
    /\ g_ignore_touch_input_temporarily
    /\ now < g_ignore_touch_until_timestamp

\* C5: on every screen a press handled less than the cooldown after the last accepted
\* press is classified None, runs no action and changes nothing.
C5_CooldownRejectsPress ==
    [][ (pc = "input" /\ now - last_button_press < touch_cooldown) =>
          /\ action_result' = ACTION_NONE
          /\ trace' = <<>>
          /\ vpn_call' = NoCall
          /\ UNCHANGED <<show_system_menu, show_info_screen, show_vpn_menu, info_page,
                         vpn_list_scroll_offset, last_button_press,
                         current_wlan0_connection_status, current_ap_hotspot_status,
                         current_vpn_status, current_vpn_config_basename,
                         current_vpn_display_name>>
      ]_vars

\* a sample inside a button of the main screen was classified None within the cooldown
C5_Witness ==
    /\ pc = "periodic"
    /\ sample # None
    /\ ~show_system_menu /\ ~show_info_screen /\ ~show_vpn_menu
    /\ now - last_button_press < touch_cooldown
    /\ action_result = ACTION_NONE
    /\ IF sample # None THEN FirstHit(BUTTON_AREAS, sample[1], sample[2]) # "None" ELSE FALSE

\* C6: the VPN menu's scroll offset is within [0, max(0, profileCount - visibleRows)].
C6_ScrollOffsetInRange ==
    /\ 0 <= vpn_list_scroll_offset
    /\ vpn_list_scroll_offset <= Max(0, Len(available_vpns) - VPN_LIST_ITEMS_PER_SCREEN)

\* a press on "down" outside the cooldown, with the list scrolled to its last row, was
\* classified None and left the offset at the maximum
C6_Witness ==
    /\ pc = "periodic"
    /\ show_vpn_menu
    /\ vpn_list_scroll_offset > 0
    /\ vpn_list_scroll_offset = Len(available_vpns) - VPN_LIST_ITEMS_PER_SCREEN
    /\ last_button_press = now - touch_cooldown
    /\ action_result = ACTION_NONE
    /\ IF sample # None
       THEN FirstHit(VPN_LIST_NAV_BUTTON_AREAS, sample[1], sample[2]) = "down"
       ELSE FALSE

\* C7: at most one of the SystemMenu, InfoScreen and VpnMenu flags is set, and none is
\* set initially.
C7_OneScreenActive ==
    /\ ~(show_system_menu /\ show_info_screen)
    /\ ~(show_system_menu /\ show_vpn_menu)
    /\ ~(show_info_screen /\ show_vpn_menu)
    /\ (pc = "startup") => (~show_system_menu /\ ~show_info_screen /\ ~show_vpn_menu)

\* a press on the main screen's system button has just opened the system menu
C7_Witness ==
    /\ pc = "periodic"
    /\ action_result = ACTION_MENU_CHANGE
    /\ show_system_menu

\* the two snapshots differ in a field other than cpu_temp, or one lacks such a field
DiffersOutsideTemp(old, new) ==
    \E k \in ((DOMAIN old) \cup (DOMAIN new)) \ {"cpu_temp"} :
        \/ k \notin DOMAIN old
        \/ k \notin DOMAIN new
        \/ old[k] # new[k]

\* C8: for a non-empty old snapshot and a new one that differ in a field other than the
\* CPU temperature, the change detector returns true whatever the temperatures are.
C8_OtherFieldChangeDetected ==
    (diff_pc = "returned" /\ DOMAIN diff_old # {} /\ DiffersOutsideTemp(diff_old, diff_new))
        => diff_result

\* the detector returned for two snapshots with the same temperature and another
\* vpn_stat
C8_Witness ==
    /\ diff_pc = "returned"
    /\ DOMAIN diff_old = {"vpn_stat", "geo_loc", "cpu_temp"}
    /\ DOMAIN diff_new = DOMAIN diff_old
    /\ diff_old["cpu_temp"] = diff_new["cpu_temp"]
    /\ diff_old["vpn_stat"] # diff_new["vpn_stat"]
    /\ diff_result

\* the two snapshots both hold cpu_temp and are equal in every other field
SameButTemp(old, new) ==
    /\ "cpu_temp" \in DOMAIN old
    /\ "cpu_temp" \in DOMAIN new
    /\ ~DiffersOutsideTemp(old, new)

\* C9: for snapshots identical except for the CPU temperature the change detector
\* returns true iff the temperatures differ by more than the threshold of 2.0, and,
\* when one of them does not parse, iff the two texts differ.
C9_TemperatureTolerance ==
    (diff_pc = "returned" /\ SameButTemp(diff_old, diff_new)) =>
        LET o == diff_old["cpu_temp"]
            n == diff_new["cpu_temp"]
            delta == IF n[2] >= o[2] THEN n[2] - o[2] ELSE o[2] - n[2]
        IN  IF Parses(o) /\ Parses(n)
            THEN diff_result <=> (delta > temp_delta_threshold)
            ELSE diff_result <=> (o # n)

\* C10: a read of the AP client count (TTL 5 s) or of the AP SSID (TTL 10 s) returns
\* the stored value without a call to the status service iff a value is stored and
\* is younger than the TTL; otherwise it makes exactly one call and stores the value
\* and the time of the read together.
C10_CacheServesWithinTtl ==
    /\ (cache_read.what = "clients") =>
         LET b == cache_read.before
         IN  /\ (cache_read.fetches = 0) <=>
                   (b.clients # None /\ cache_now - b.timestamp < CACHE_AP_CLIENTS_DURATION)
             /\ (cache_read.fetches = 0) =>
                   (cache_read.returned = b.clients /\ ap_clients_cache = b)
             /\ (cache_read.fetches # 0) =>
                   /\ cache_read.fetches = 1
                   /\ cache_read.returned # None
                   /\ ap_clients_cache = [clients |-> cache_read.returned, timestamp |-> cache_now]
    /\ (cache_read.what = "ssid") =>
         LET b == cache_read.before
         IN  /\ (cache_read.fetches = 0) <=>
                   (b.ssid # None /\ cache_now - b.timestamp < CACHE_AP_SSID_DURATION)
             /\ (cache_read.fetches = 0) =>
                   (cache_read.returned = b.ssid /\ ap_ssid_cache = b)
             /\ (cache_read.fetches # 0) =>
                   /\ cache_read.fetches = 1
                   /\ cache_read.returned # None
                   /\ ap_ssid_cache = [ssid |-> cache_read.returned, timestamp |-> cache_now]

\* the client count 3 fetched two seconds ago was returned without a fetch
C10_Witness ==
    /\ cache_read.what = "clients"
    /\ cache_read.fetches = 0
    /\ cache_read.returned = Some(3)
    /\ cache_now - ap_clients_cache.timestamp = 2

\* C11: an unforced update_system_stats keeps the core stats (TTL 5 s) and the
\* geolocation (TTL 900 s) without a fetch iff now - fetchedAt < ttl and fetches
\* otherwise, also at now - fetchedAt = ttl; a forced call fetches the geolocation
\* whatever its age; a fetch stores value and timestamp together.
C11_StatsServedWithinTtl ==
    [][ stats_call'.called =>
          LET old == system_stats_cache
              new == system_stats_cache'
          IN  /\ stats_call'.core_fetched <=>
                    ~(stats_now - old.last_core_stats_update < CORE_STATS_MAX_AGE)
              /\ stats_call'.geo_fetched <=>
                    (stats_call'.forced \/ ~(stats_now - old.last_geo_update < GEO_MAX_AGE))
              /\ IF stats_call'.core_fetched
                 THEN new.last_core_stats_update = stats_now
                 ELSE /\ new.last_core_stats_update = old.last_core_stats_update
                      /\ new.cpu_temp = old.cpu_temp
                      /\ new.cpu_usage = old.cpu_usage
              /\ IF stats_call'.geo_fetched
                 THEN new.last_geo_update = stats_now
                 ELSE /\ new.last_geo_update = old.last_geo_update
                      /\ new.geo_location = old.geo_location
      ]_vars

\* C12: a fetch of the AP SSID, the client count or the geolocation that fails returns
\* the sentinel ("N/A", 0, "Unknown") and stores it with the time of the fetch, also
\* over a value that an earlier fetch had stored.
C12_FailedFetchStoresSentinel ==
    /\ (cache_read.what = "clients" /\ cache_read.fetches = 1 /\ ~cache_read.api.ok) =>
          /\ cache_read.returned = Some(0)
          /\ ap_clients_cache = [clients |-> Some(0), timestamp |-> cache_now]
    /\ (cache_read.what = "ssid" /\ cache_read.fetches = 1 /\ ~cache_read.api.ok) =>
          /\ cache_read.returned = Some("N/A")
          /\ ap_ssid_cache = [ssid |-> Some("N/A"), timestamp |-> cache_now]
    /\ stats_call.geo_failed =>
          /\ system_stats_cache.geo_location = "Unknown"
          /\ system_stats_cache.last_geo_update = stats_now

\* the status service gave no answer to a read that found the client count 3 expired
C12_Witness ==
    /\ cache_read.what = "clients"
    /\ cache_read.fetches = 1
    /\ ~cache_read.api.ok
    /\ cache_read.before.clients = Some(3)
    /\ cache_read.returned = Some(0)
    /\ ap_clients_cache.clients = Some(0)

\* an Input step in which a sample was handled outside the cooldown
AcceptedSample ==
    /\ pc = "input" /\ pc' = "periodic"
    /\ sample' # None
    /\ ~InCooldown(Globals)

\* the accepted sample lies on the named button of the given button list
TapOn(areas, name) ==
    AcceptedSample /\ FirstHit(areas, sample'[1], sample'[2]) = name

\* the accepted sample lies on a visible row of the VPN list and on no navigation button
RowTap ==
    /\ AcceptedSample
    /\ ScreenName(Globals) = "vpn_menu"
    /\ vpn_call'.op \in {"connect", "connect_noop"}

FramesOf(t) == { t[i].op : i \in { j \in 1..Len(t) : t[j].kind = "frame" } }

\* C13: with one profile and VPN status Off, a tap on the VPN menu button on Main opens
\* the VPN menu, asks for a redraw in that iteration and arms the ignore window for
\* IGNORE_TOUCH_SPAN, during which no poll is made; a later tap on the profile's row
\* invokes connect_vpn, the status is Connecting while the service is started, and when
\* the health check after the settle delay reports Active the call returns with status
\* On, that profile active and the geolocation refetched whatever its age
C13_OpenMenuThenConnect ==
    [][ /\ ( /\ Len(available_vpns) = 1
             /\ current_vpn_status = "VPN_OFF"
             /\ ScreenName(Globals) = "main"
             /\ TapOn(BUTTON_AREAS, "vpn_menu") )
           => /\ show_vpn_menu'
              /\ action_result' = ACTION_MENU_CHANGE
              /\ redraw'
              /\ g_ignore_touch_input_temporarily'
              /\ g_ignore_touch_until_timestamp' = now + IGNORE_TOUCH_SPAN
        /\ ( /\ pc = "input" /\ pc' = "periodic"
             /\ g_ignore_touch_input_temporarily
             /\ now < g_ignore_touch_until_timestamp )
           => /\ ~polled'
              /\ sample' = None
        /\ ( /\ pc = "render" /\ redraw /\ show_vpn_menu )
           => "vpn_menu" \in FramesOf(trace')
        /\ ( /\ Len(available_vpns) = 1
             /\ current_vpn_status = "VPN_OFF"
             /\ current_vpn_config_basename = None
             /\ RowTap )
           => /\ vpn_call'.op = "connect"
              /\ vpn_call'.target = available_vpns[1].config_basename_no_ext
              /\ vpn_call'.during = "VPN_CONNECTING"
              /\ "VPN: Connecting" \in FramesOf(trace')
              /\ vpn_call'.health = "VPN_ON"
                 => /\ current_vpn_status' = "VPN_ON"
                    /\ current_vpn_config_basename' = available_vpns[1].config_basename_no_ext
                    /\ current_vpn_display_name' = available_vpns[1].name
                    /\ \E i \in 1..Len(trace') : trace'[i] = Ev("fetch", "geoip_forced", None)
      ]_vars

\* the ScreenState that is active
ActiveScreen == ScreenName(Globals)

\* the screen flags, the page, the scroll offset and the VPN state are as before the step
NothingDone ==
    /\ trace' = <<>>
    /\ vpn_call' = NoCall
    /\ UNCHANGED <<show_system_menu, show_info_screen, show_vpn_menu, info_page,
                   vpn_list_scroll_offset, current_vpn_status,
                   current_vpn_config_basename, current_vpn_display_name,
                   current_wlan0_connection_status>>

\* C14: a press handled outside the cooldown is classified MENU_CHANGE exactly when the
\* active ScreenState after it differs from the one before it, NORMAL_PRESS only when
\* the ScreenState is the same, and NONE only when no action was taken; on every screen
\* and for every button, the rows of the VPN list that invoke connect_vpn included
C14_ClassificationMatchesTransition ==
    [][ AcceptedSample
        => /\ (action_result' = ACTION_MENU_CHANGE) <=> (ActiveScreen' # ActiveScreen)
           /\ (action_result' = ACTION_NORMAL_PRESS) => (ActiveScreen' = ActiveScreen)
           /\ (action_result' = ACTION_NONE) => NothingDone
           /\ action_result' \in {ACTION_MENU_CHANGE, ACTION_NORMAL_PRESS, ACTION_NONE}
      ]_vars

\* the ignore window is armed by the step: active, to end IGNORE_TOUCH_SPAN from now
WindowArmed ==
    /\ g_ignore_touch_input_temporarily'
    /\ g_ignore_touch_until_timestamp' = now + IGNORE_TOUCH_SPAN

\* the step leaves the ignore window as it was, or lets it expire
WindowNotArmed ==
    g_ignore_touch_input_temporarily'
       => /\ g_ignore_touch_input_temporarily
          /\ g_ignore_touch_until_timestamp' <= g_ignore_touch_until_timestamp

\* C15: in the iteration of a press classified MENU_CHANGE the ignore window is armed
\* (active, ending IGNORE_TOUCH_SPAN after the arming) and the touch flag and touch
\* count of the sample in flight are reset; the window is armed after every action that
\* changed the active ScreenState, and a NONE or NORMAL_PRESS result never arms it
C15_MenuChangeArmsWindow ==
    [][ (pc = "input" /\ pc' = "periodic")
        => /\ (action_result' = ACTION_MENU_CHANGE)
                => (WindowArmed /\ gt_dev_data' = "cleared")
           /\ (ActiveScreen' # ActiveScreen) => WindowArmed
           /\ (action_result' \in {ACTION_NONE, ACTION_NORMAL_PRESS})
                => (WindowNotArmed /\ gt_dev_data' # "cleared")
      ]_vars

\* C16: the VPN health check has three outcomes: the answer active gives VPN_ON, the
\* answer inactive or failed gives VPN_OFF, and everything else (no output, a command
\* that failed or timed out without a known word, an unknown word, no service name)
\* gives VPN_ERROR and never VPN_OFF
C16_HealthCheckThreeOutcomes ==
    cache_read.what = "vpn_health"
    => LET proc == cache_read.proc
           named == cache_read.before # None
           status == cache_read.returned[1]
       IN  IF named /\ proc.completed /\ proc.returncode = 0 /\ proc.stdout = "active"
           THEN status = "VPN_ON"
           ELSE IF named /\ proc.completed /\ proc.stdout \in {"inactive", "failed"}
           THEN status = "VPN_OFF"
           ELSE status = "VPN_ERROR"

\* the query of the status service failed: None was returned (no API key, a request
\* error, an error status, a body that is no JSON), or the body was empty
QueryFailed(api) == api \in {ApiNone, ApiSuccessDict}

\* C20: the hotspot status is what the status service reports when it answers with
\* structured data, and whenever the query fails the status is the one the command
\* fallback gives
C20_HotspotFallsBackOnFailure ==
    cache_read.what = "hotspot"
    => IF QueryFailed(cache_read.api)
       THEN cache_read.returned = Some(run_command_output(cache_read.proc) = "active")
       ELSE Truthy(cache_read.api)
            => cache_read.returned = Some(cache_read.api.data.hostapdStatus = 1)

\* C17: connect_vpn for the profile that is already active with status VPN_ON does
\* nothing: no service command, no frame, and the VPN status, the active profile and
\* the active ScreenState are what they were
C17_ConnectActiveProfileIsNoOp ==
    [][ ( /\ RowTap
          /\ current_vpn_status = "VPN_ON"
          /\ vpn_call'.target = current_vpn_config_basename )
        => /\ vpn_call'.op = "connect_noop"
           /\ trace' = <<>>
           /\ UNCHANGED <<current_vpn_status, current_vpn_config_basename,
                          current_vpn_display_name>>
           /\ ActiveScreen' = ActiveScreen
      ]_vars

\* C18: disconnect_vpn with no profile recorded issues no command and leaves the status
\* VPN_OFF; with a profile recorded it issues exactly one stop command, for that
\* profile's service, and returns with no profile and status VPN_OFF whatever the
\* health check after the stop answered
C18_DisconnectOutcome ==
    [][ CallDisconnect
        => IF current_vpn_config_basename = None
           THEN /\ trace' = <<>>
                /\ current_vpn_status' = "VPN_OFF"
                /\ current_vpn_config_basename' = None
           ELSE /\ VpnCommands' =
                      << Ev("cmd", "stop", get_vpn_service_name(current_vpn_config_basename)) >>
                /\ current_vpn_config_basename' = None
                /\ current_vpn_display_name' = None
                /\ current_vpn_status' = "VPN_OFF"
      ]_vars

\* a disconnect returned although the service still answered active after the stop
C18_Witness ==
    /\ pc = "vpn_returned"
    /\ vpn_call.op = "disconnect"
    /\ vpn_call.before # None
    /\ vpn_call.stop_health = "VPN_ON"
    /\ Len(VpnCommands) = 1
    /\ current_vpn_config_basename = None
    /\ current_vpn_status = "VPN_OFF"

\* a reboot or shutdown command was issued by the last step
PrivilegedIssued ==
    \E i \in 1..Len(trace) : trace[i].kind = "cmd" /\ trace[i].op \in {"reboot", "shutdown"}

\* C19: a press on reboot or shutdown in the system menu shows the final frame, issues
\* the privileged command, and after that no step of the control loop is taken: no
\* poll, no button action, no status refresh, no redraw
C19_LoopEndsAfterRebootOrShutdown ==
    [][ /\ ( ActiveScreen = "system_menu" /\ TapOn(SYSTEM_BUTTON_AREAS, "reboot") )
           => trace' = << Ev("frame", "Rebooting...", None),
                          Ev("frame", "RaspAP Rebooting", None),
                          Ev("cmd", "reboot", None) >>
        /\ ( ActiveScreen = "system_menu" /\ TapOn(SYSTEM_BUTTON_AREAS, "shutdown") )
           => trace' = << Ev("frame", "Shutting down...", None),
                          Ev("frame", "RaspAP Powered Off", None),
                          Ev("cmd", "shutdown", None) >>
        /\ PrivilegedIssued => pc' = pc
      ]_vars

\* the reading lies in the sensor's range
InRange(r) ==
    /\ 0 <= r[1] /\ r[1] <= PHYSICAL_EPD_WIDTH - 1
    /\ 0 <= r[2] /\ r[2] <= PHYSICAL_EPD_HEIGHT - 1

InPanel(c) ==
    /\ 0 <= c[1] /\ c[1] <= UI_EPD_WIDTH - 1
    /\ 0 <= c[2] /\ c[2] <= UI_EPD_HEIGHT - 1

IsCorner(c, w, h) == c[1] \in {0, w - 1} /\ c[2] \in {0, h - 1}

\* the reading that a panel coordinate comes from
ReadingOf(c) == << c[2], UI_EPD_WIDTH - 1 - c[1] >>

\* C21: the coordinate returned for a reading lies in [0, W-1] x [0, H-1]; a corner of
\* the sensor's range gives a corner of the panel; and on the readings in range the
\* mapping is one-to-one onto the panel: the reading is recovered from the coordinate,
\* and there are as many readings in range as panel coordinates
C21_MappingWithinPanel ==
    /\ PHYSICAL_EPD_WIDTH * PHYSICAL_EPD_HEIGHT = UI_EPD_WIDTH * UI_EPD_HEIGHT
    /\ touch_pc = "mapped"
       => /\ InPanel(touch_coords)
          /\ IsCorner(touch_reading, PHYSICAL_EPD_WIDTH, PHYSICAL_EPD_HEIGHT)
             => IsCorner(touch_coords, UI_EPD_WIDTH, UI_EPD_HEIGHT)
          /\ InRange(touch_reading)
             => /\ ReadingOf(touch_coords) = touch_reading
                /\ touch_coords = << UI_EPD_WIDTH - 1 - touch_reading[2], touch_reading[1] >>

\* the far corner of the sensor's range was mapped to the panel's corner (0, H-1)
C21_Witness ==
    /\ touch_pc = "mapped"
    /\ touch_reading = << PHYSICAL_EPD_WIDTH - 1, PHYSICAL_EPD_HEIGHT - 1 >>
    /\ touch_coords = << 0, UI_EPD_HEIGHT - 1 >>

\* the positions of panel_calls that hold the hook
CallsOf(hook) == { i \in 1..Len(panel_calls) : panel_calls[i] = hook }

\* C22: the panel's hooks are called in the order init, draws, sleep: a frame is pushed
\* only after an init that succeeded and before sleep; after a failed init the loop is
\* never entered; and an exception raised in the loop body is caught, so that sleep and
\* the driver's teardown are called before main() ends
C22_PanelLifecycleOrder ==
    /\ \A i \in CallsOf("display") :
         /\ life.init_success
         /\ \E j \in CallsOf("init") : j < i
         /\ \A j \in CallsOf("sleep") : i < j
    /\ \A i \in CallsOf("sleep") : \A j \in 1..Len(panel_calls) : j > i =>
         panel_calls[j] \in {"module_exit", "Dev_exit"}
    /\ ~life.init_success => (~life.entered_loop /\ life_pc \notin {"setup", "loop"})
    /\ (life.raised_in = "init") => (life.raised = "SystemExit" /\ ~life.init_success)
    /\ (life_pc = "exited" /\ life.raised_in = "loop")
       => /\ life.exit_code = 0
          /\ CallsOf("sleep") # {}
          /\ CallsOf("module_exit") \cup CallsOf("Dev_exit") # {}

\* an exception left the loop body after frames were drawn, and main() ended after
\* sleep and module_exit
C22_Witness ==
    /\ life_pc = "exited"
    /\ life.raised = "Exception"
    /\ life.raised_in = "loop"
    /\ life.iterations = 2
    /\ Len(panel_calls) >= 6
    /\ SubSeq(panel_calls, Len(panel_calls) - 2, Len(panel_calls))
          = <<"display", "sleep", "module_exit">>

\* the commands of a step that change the state of a service or an interface
StatusCommands == {"start", "stop", "ip_link_set", "try_restart"}

\* the frames that announce an action in progress
ProgressFrames == {"VPN: Connecting", "VPN: Disconnecting", "Net: Setting"}

\* every status-changing command of the sequence comes after a progress frame
FrameBeforeCommands(t) ==
    \A i \in 1..Len(t) :
       (t[i].kind = "cmd" /\ t[i].op \in StatusCommands)
       => \E j \in 1..(i - 1) : t[j].kind = "frame" /\ t[j].op \in ProgressFrames

\* C23: a press that toggles the network, connects or disconnects a VPN shows a frame
\* of the action in progress before its first command, and the status it leaves is the
\* one a check made after the command reported: On after a connect only when the last
\* health check answered active, Off after a disconnect only when the health check
\* after the stop found the service stopped
C23_ProgressFrameThenVerifiedStatus ==
    [][ (pc = "input" /\ pc' = "periodic")
        => /\ FrameBeforeCommands(trace')
           /\ (vpn_call'.op = "connect" /\ current_vpn_status' = "VPN_ON")
              => /\ vpn_call'.health = "VPN_ON"
                 /\ vpn_call'.refresh = "VPN_ON"
           /\ (vpn_call'.op = "disconnect" /\ current_vpn_status' = "VPN_OFF")
              => vpn_call'.stop_health = "VPN_OFF"
      ]_vars

\* the button of the main screen that opens the screen
MainButtonOf(screen) ==
    IF screen = "vpn_menu" THEN "vpn_menu"
    ELSE IF screen = "system_menu" THEN "system"
    ELSE "info"

\* the buttons of the screen that is active
AreasOf(screen) ==
    IF screen = "vpn_menu" THEN VPN_LIST_NAV_BUTTON_AREAS
    ELSE IF screen = "info_screen" THEN INFO_BUTTON_AREAS
    ELSE IF screen = "system_menu" THEN SYSTEM_BUTTON_AREAS
    ELSE BUTTON_AREAS

\* C24: the active ScreenState changes only from Main to another screen by a press on
\* that screen's button of Main, or from another screen to Main; never from one screen
\* other than Main to another; and an accepted press on the back button of a screen
\* other than Main leads to Main
C24_TransitionsThroughMain ==
    [][ /\ (ActiveScreen' # ActiveScreen)
           => \/ /\ ActiveScreen = "main"
                 /\ TapOn(BUTTON_AREAS, MainButtonOf(ActiveScreen'))
              \/ /\ ActiveScreen # "main"
                 /\ ActiveScreen' = "main"
                 /\ AcceptedSample
        /\ (ActiveScreen # "main" /\ TapOn(AreasOf(ActiveScreen), "back"))
           => /\ ActiveScreen' = "main"
              /\ action_result' = ACTION_MENU_CHANGE
      ]_vars

\* the back button of the system menu was pressed and Main is active
C24_Witness ==
    /\ pc = "periodic"
    /\ action_result = ACTION_MENU_CHANGE
    /\ ActiveScreen = "main"
    /\ last_displayed_state.show_system
    /\ sample # None
    /\ FirstHit(SYSTEM_BUTTON_AREAS, sample[1], sample[2]) = "back"

\* C25: the page of the info screen is within 0 .. MAX_INFO_PAGES - 1 in every state;
\* a press on prev at page 0 and a press on next at the last page leave it unchanged,
\* and opening the info screen from Main sets it to 0
C25_InfoPageWithinBounds ==
    [][ /\ info_page \in 0 .. (MAX_INFO_PAGES - 1)
        /\ info_page' \in 0 .. (MAX_INFO_PAGES - 1)
        /\ (ActiveScreen = "info_screen" /\ TapOn(INFO_BUTTON_AREAS, "prev") /\ info_page = 0)
           => info_page' = 0
        /\ (ActiveScreen = "info_screen" /\ TapOn(INFO_BUTTON_AREAS, "next")
              /\ info_page = MAX_INFO_PAGES - 1)
           => info_page' = MAX_INFO_PAGES - 1
        /\ (ActiveScreen = "main" /\ TapOn(BUTTON_AREAS, "info"))
           => (ActiveScreen' = "info_screen" /\ info_page' = 0)
      ]_vars

\* next was pressed while the last page was displayed, and the last page stays
C25_Witness ==
    /\ pc = "periodic"
    /\ ActiveScreen = "info_screen"
    /\ sample # None
    /\ FirstHit(INFO_BUTTON_AREAS, sample[1], sample[2]) = "next"
    /\ action_result = ACTION_NORMAL_PRESS
    /\ last_displayed_state.info_pg = MAX_INFO_PAGES - 1
    /\ info_page = MAX_INFO_PAGES - 1

\* the change detector applied to the last displayed snapshot and the current one
DetectorReports ==
    have_states_changed(last_displayed_state, get_current_display_state(Globals))

\* the step is the redraw part of an iteration
RenderStep == pc = "render" /\ pc' = "input"

\* C26: an iteration whose press was classified MENU_CHANGE, or whose change detector
\* reports a difference between the last displayed snapshot and the current one, draws
\* the frame of the active screen; an iteration with action NONE and no reported
\* difference draws no frame
C26_RedrawOnTransitionOrChange ==
    [][ RenderStep
        => /\ (action_result = ACTION_MENU_CHANGE \/ DetectorReports)
              => (redraw' /\ ActiveScreen \in FramesOf(trace'))
           /\ (action_result = ACTION_NONE /\ ~DetectorReports)
              => (~redraw' /\ FramesOf(trace') = {})
      ]_vars

\* an iteration whose press armed the ignore window has drawn the frame of a screen
\* other than Main
C26_Witness ==
    /\ pc = "input"
    /\ loop_counter > 0
    /\ redraw
    /\ g_ignore_touch_input_temporarily
    /\ g_ignore_touch_until_timestamp = now + IGNORE_TOUCH_SPAN - 1
    /\ ActiveScreen # "main"
    /\ ActiveScreen \in FramesOf(trace)

\* C27: at the end of every iteration of the main loop the snapshot built in that
\* iteration is the last displayed one, which the next iteration compares against
C27_SnapshotPersistedEveryIteration ==
    [][ (diff_pc = "decide" /\ diff_pc' = "build") => diff_old' = diff_new ]_vars

\* the snapshot get_current_display_state would return in the state
Snapshot == get_current_display_state(Globals)

\* the fields of the snapshot that hold the network, hotspot and VPN status
StatusFields == {"wlan0_conn", "ap_hotspot_stat", "vpn_stat"}

\* the two snapshots are equal in every field other than the status fields
EqualBesidesStatus(old, new) ==
    /\ DOMAIN old = DOMAIN new
    /\ \A k \in (DOMAIN old) \ StatusFields : old[k] = new[k]

\* C28: the snapshot holds only what the active screen shows: the scroll offset of the
\* VPN list and the info page do not enter it while their screen is not active, and
\* while the system menu is active a change of the network, hotspot or VPN status
\* leaves the snapshot equal and causes no redraw
C28_SnapshotHoldsVisibleFieldsOnly ==
    [][ /\ (ActiveScreen # "vpn_menu") => Snapshot.vpn_scroll = -1
        /\ (ActiveScreen # "info_screen") => Snapshot.info_pg = -1
        /\ (pc = "periodic" /\ pc' = "render" /\ ActiveScreen = "system_menu")
           => Snapshot' = Snapshot
        /\ (RenderStep /\ ActiveScreen = "system_menu" /\ action_result = ACTION_NONE
              /\ EqualBesidesStatus(last_displayed_state, Snapshot))
           => ~redraw'
      ]_vars

\* the three statuses as the refresh of lines 1104-1107 can leave them
StatusesOf(g) ==
    <<g.current_wlan0_connection_status, g.current_ap_hotspot_status, g.current_vpn_status>>

DisconnectTap ==
    ActiveScreen = "vpn_menu" /\ TapOn(VPN_LIST_NAV_BUTTON_AREAS, "disconnect")

\* C30: a press on the disconnect button of the VPN menu while the VPN status is not
\* VPN_ON calls no disconnect, issues no command, shows no frame and is classified
\* NONE; while the status is VPN_ON it calls disconnect_vpn once, which stops the
\* recorded profile's service once
C30_DisconnectOnlyWhileOn ==
    [][ DisconnectTap
        => IF current_vpn_status = "VPN_ON"
           THEN /\ vpn_call'.op \in {"disconnect", "disconnect_noop"}
                /\ vpn_call'.op = "disconnect"
                   => /\ vpn_call'.before = current_vpn_config_basename
                      /\ SelectSeq(trace', LAMBDA e : e.kind = "cmd") =
                           << Ev("cmd", "stop", get_vpn_service_name(current_vpn_config_basename)) >>
                /\ vpn_call'.op = "disconnect_noop"
                   => SelectSeq(trace', LAMBDA e : e.kind = "cmd") = <<>>
                /\ action_result' = ACTION_NORMAL_PRESS
           ELSE /\ NothingDone
                /\ action_result' = ACTION_NONE
                /\ UNCHANGED last_button_press
      ]_vars

\* the disconnect button was pressed with the status VPN_ON and the service was stopped
C30_Witness ==
    /\ pc = "periodic"
    /\ show_vpn_menu
    /\ sample # None
    /\ FirstHit(VPN_LIST_NAV_BUTTON_AREAS, sample[1], sample[2]) = "disconnect"
    /\ vpn_call.op = "disconnect"
    /\ vpn_call.before_status = "VPN_ON"
    /\ \E i \in 1..Len(trace) : trace[i].kind = "cmd" /\ trace[i].op = "stop"

\* the areas of the list, by position, that contain the point
ContainingAreas(areas, tx, ty) ==
    { i \in 1..Len(areas) : Inside(tx, ty, areas[i].x, areas[i].y, areas[i].w, areas[i].h) }

\* the visible rows of the VPN list that contain the point
ContainingRows(g, tx, ty) ==
    { i \in VisibleRows(g) :
        Inside(tx, ty, VPN_LIST_X_START, RowY(g, i), VPN_LIST_WIDTH, VPN_LIST_ITEM_HEIGHT) }

\* the VPN lists and scroll offsets the menu can show: up to one profile more than a
\* screen holds, scrolled no further than check_button_press allows
ListStates ==
    { [available_vpns |-> [i \in 1..n |-> VpnDef(i)], vpn_list_scroll_offset |-> o] :
        <<n, o>> \in { q \in (0..(VPN_LIST_ITEMS_PER_SCREEN + 1)) \X (0..1) :
                         q[2] <= Max(0, q[1] - VPN_LIST_ITEMS_PER_SCREEN) } }

\* C31: on every screen every coordinate of the panel lies in at most one button area
\* or visible row of the VPN list, and the hit test returns that one region, the first
\* in declaration order that contains the coordinate
C31_AtMostOneRegionPerPoint ==
    (touch_pc = "mapped")
    => LET tx == touch_coords[1]
           ty == touch_coords[2]
       IN  /\ \A areas \in {BUTTON_AREAS, SYSTEM_BUTTON_AREAS, INFO_BUTTON_AREAS,
                            VPN_LIST_NAV_BUTTON_AREAS} :
                LET hits == ContainingAreas(areas, tx, ty)
                IN  /\ Cardinality(hits) <= 1
                    /\ hits = {} => FirstHit(areas, tx, ty) = "None"
                    /\ \A i \in hits : FirstHit(areas, tx, ty) = areas[i].name
           /\ \A g \in ListStates :
                Cardinality(ContainingAreas(VPN_LIST_NAV_BUTTON_AREAS, tx, ty))
                  + Cardinality(ContainingRows(g, tx, ty)) <= 1

\* the point lies on the last pixel row of the second button of Main and inside the
\* width of the buttons, and the hit test names that button
C31_Witness ==
    /\ touch_pc = "mapped"
    /\ touch_coords[2] = BTN_SLOT_2_Y + BTN_HEIGHT
    /\ FirstHit(BUTTON_AREAS, touch_coords[1], touch_coords[2]) = "vpn_menu"
    /\ ContainingAreas(BUTTON_AREAS, touch_coords[1], touch_coords[2]) = {2}

\* the input part of an iteration
InputStep == pc = "input" /\ pc' = "periodic"

\* C32: an iteration whose press is classified NONE (no sample, a sample within the
\* cooldown, outside every area, on scroll-up at offset 0, on scroll-down at the last
\* offset, on disconnect while the VPN is not on) leaves the screen, the info page, the
\* scroll offset, the VPN status, the active profile and last_button_press as they
\* were and issues no command and no frame; a press that is accepted and does not
\* wait sets last_button_press to the time of the press
C32_NonePressChangesNothing ==
    [][ InputStep
        => /\ (action_result' = ACTION_NONE)
              => /\ NothingDone
                 /\ ActiveScreen' = ActiveScreen
                 /\ UNCHANGED <<last_button_press, current_ap_hotspot_status, available_vpns>>
           /\ (last_button_press' # last_button_press)
              => action_result' \in {ACTION_NORMAL_PRESS, ACTION_MENU_CHANGE}
           /\ (action_result' \in {ACTION_NORMAL_PRESS, ACTION_MENU_CHANGE} /\ trace' = <<>>)
              => last_button_press' = now
      ]_vars

\* outside the cooldown, scroll-up was pressed at offset 0 and classified NONE
C32_Witness ==
    /\ pc = "periodic"
    /\ show_vpn_menu
    /\ sample # None
    /\ FirstHit(VPN_LIST_NAV_BUTTON_AREAS, sample[1], sample[2]) = "up"
    /\ vpn_list_scroll_offset = 0
    /\ ~InCooldown(Globals)
    /\ action_result = ACTION_NONE

\* C33: after a redraw the last displayed snapshot equals the snapshot of the values
\* as they are when the redraw has finished, the status refreshes of the drawing
\* included, so that the next comparison finds no difference left by the redraw
C33_PersistedSnapshotIsCurrent ==
    [][ (RenderStep /\ redraw')
        => /\ last_displayed_state' = Snapshot'
           /\ ~have_states_changed(last_displayed_state', Snapshot')
      ]_vars

\* the step handed the privileged command op to run_command
Issues(op) == \E i \in 1..Len(trace') : trace'[i] = Ev("cmd", op, None)

\* C34: in every step of the program, the reboot command and the shutdown command are
\* issued only by the handling of an accepted sample that lies inside the button of
\* that name while the system menu is the active screen; no press on another screen
\* and no start-up, periodic refresh or redraw issues them
C34_PrivilegedOnlyFromSystemMenu ==
    [][ \A op \in {"reboot", "shutdown"} :
          Issues(op) => /\ ActiveScreen = "system_menu"
                        /\ TapOn(SYSTEM_BUTTON_AREAS, op)
                        /\ ~Issues(IF op = "reboot" THEN "shutdown" ELSE "reboot")
      ]_vars

\* the shutdown button of the system menu was pressed and the command was issued
C34_Witness ==
    /\ pc = "periodic"
    /\ show_system_menu
    /\ sample # None
    /\ FirstHit(SYSTEM_BUTTON_AREAS, sample[1], sample[2]) = "shutdown"
    /\ \E i \in 1..Len(trace) : trace[i] = Ev("cmd", "shutdown", None)

\* the VPN statuses a finished connect, disconnect or status update leaves
SettledVpnStatuses == {"VPN_OFF", "VPN_ON", "VPN_ERROR"}

\* C35: once main() has reached its loop, at the start of every iteration, where the
\* periodic part and the snapshot begin, and in every snapshot that was kept, the VPN
\* status is VPN_OFF, VPN_ON or VPN_ERROR: a connect or disconnect has run to its end,
\* and VPN_CONNECTING, VPN_DISCONNECTING and INIT are not seen
C35_VpnStatusSettledBetweenSteps ==
    (pc \in {"input", "periodic", "render"})
    => /\ current_vpn_status \in SettledVpnStatuses
       /\ last_displayed_state.vpn_stat \in SettledVpnStatuses

\* a connect that started the service with the status VPN_CONNECTING has returned and
\* the status is settled
C35_Witness ==
    /\ pc = "periodic"
    /\ vpn_call.op = "connect"
    /\ vpn_call.during = "VPN_CONNECTING"
    /\ \E i \in 1..Len(trace) : trace[i].kind = "cmd" /\ trace[i].op = "start"
    /\ current_vpn_status \in SettledVpnStatuses

============================================================================
